---- MODULE Spec2Model ----
(***************************************************************************)
(* Event-creation request handlers of enka_create-product-list and the     *)
(* remote transactional store they drive.                                  *)
(*                                                                         *)
(* A run is one invocation of one handler.  Its local state (position,     *)
(* ledger of opened transactions, loop indices, caught error) is kept per  *)
(* run; the store (transactions and committed rows) is shared.  Every      *)
(* remote call is one step: the call is issued, the store answers, and the *)
(* handler resumes with the result or with the error.                      *)
(***************************************************************************)
EXTENDS Integers, Sequences, FiniteSets, TLC

\* ------------------------------------------------------------------ bounds

\* Longest ingredient list of an input.
MaxLen == 199

\* ------------------------------------------------------- program constants

\* Mutant: the cap one too high.
maxOperationsPerTransaction_OneMore == 99 + 1

\* part_002 line 51: const maxOperationsPerTransaction = 99
maxOperationsPerTransaction == 99

\* part_002 line 212: for (let attempt = 0; attempt < 3; attempt++)
maxRollbackAttempts == 3

Runs == {1, 2}

\* Handlers: main.js and the event-creation handlers of part_002..part_005.
Variants == {"main", "p002", "p003", "p004", "p005"}

Events == {"E1", "E2"}

\* Ingredient-list lengths of the inputs: the lengths around the batch
\* boundaries of the multi-transaction writer, up to MaxLen.
Lens ==
  {n \in 0..MaxLen :
     \/ n <= 1
     \/ n \in {maxOperationsPerTransaction, maxOperationsPerTransaction + 1}
     \/ n = MaxLen}

\* How req.body (and, in main.js, req.payload) arrives.
BodyKinds == {"absent", "badjson", "jsonstring", "object"}

\* The code of an error thrown by a remote call, as the handlers compare it:
\* the numbers 404 and 409 and the strings of the SDK; "other" is any other
\* code, "undefined" the code of an exception raised locally (TypeError,
\* SyntaxError), which has none.
RemoteCodes ==
  {"404", "409", "document_already_exists", "conflict",
   "transaction_limit_exceeded", "other"}

NoError == "none"

Min(a, b) == IF a <= b THEN a ELSE b

\* ------------------------------------------------------------------- state

VARIABLES
  variant,          \* [Runs -> Variants]: the handler the run executes
  input,            \* [Runs -> request]
  pc,               \* [Runs -> position in the handler]
  allTransactions,  \* [Runs -> Seq(tx id)]: part_002 rollback ledger
  transactionId,    \* [Runs -> tx id or 0 (null)]: single-transaction handlers
  loopI,            \* [Runs -> Nat]: i of the batch loop
  loopJ,            \* [Runs -> Nat]: children of the current slice staged
  err,              \* [Runs -> code of the caught error or NoError]
  rbIdx,            \* [Runs -> index in the ledger of the rollback loop]
  attempt,          \* [Runs -> attempt of the rollback retry loop]
  response,         \* [Runs -> response record; status 0 = none yet]
  txs,              \* store: Seq of [status, writes], indexed by tx id
  rows,             \* store: set of committed (visible) rows
  calls,            \* log of the remote calls issued, in order
  expense           \* [Runs -> [tx, result]]: part_001 expense transaction

vars ==
  <<variant, input, pc, allTransactions, transactionId, loopI, loopJ, err,
    rbIdx, attempt, response, txs, rows, calls, expense>>

locals == <<allTransactions, transactionId, loopI, loopJ, err, rbIdx, attempt>>

\* ------------------------------------------------------------------ inputs

Requests ==
  [payloadKind : BodyKinds, bodyKind : BodyKinds,
   eventId : Events \cup {""}, eventData : BOOLEAN,
   contentHash : BOOLEAN, userId : BOOLEAN,
   ingredients : {"absent", "notarray", "array"}, len : Lens]

\* Only main.js reads req.payload; an absent or non-array ingredient list
\* has no length.
RequestsOf(v) ==
  {q \in Requests :
     /\ (v # "main" => q.payloadKind = "absent")
     /\ (q.ingredients # "array" => q.len = 0)}

\* eventData.ingredients && Array.isArray(eventData.ingredients)
HasIngredients(q) == q.ingredients = "array"

\* Mutant: contentHash is not checked.
MissingField_NoHash(q) ==
  q.eventId = "" \/ ~q.eventData \/ ~q.userId

\* !eventId || !eventData || !contentHash || !userId
MissingField(q) ==
  q.eventId = "" \/ ~q.eventData \/ ~q.contentHash \/ ~q.userId

\* ------------------------------------------------------------------- rows

\* The parent row: table main, rowId eventId.
MainRow(ev) == <<"main", 0, ev>>

\* The ingredientHugoUuid of the ingredient at input position k (1-based):
\* the inputs list distinct ingredients, "A" first, then "A2", "A3", ...
IngredientHugoUuid(k) == IF k = 1 THEN "A" ELSE "A" \o ToString(k)

\* Mutant: the identifier is the ingredient's uuid alone.
ChildId_UuidOnly(uuid, ev) == uuid

\* `${ingredient.ingredientHugoUuid}_${eventId}`
ChildId(uuid, ev) == uuid \o "_" \o ev

\* The child row of the ingredient at input position k: table products,
\* its identifier ($id, rowId), and its parent reference mainId: eventId.
ProductRow(k, ev) == <<"products", ChildId(IngredientHugoUuid(k), ev), ev>>

\* --------------------------------------------------------------- responses

NoResponse ==
  [status |-> 0, success |-> FALSE, code |-> "absent", rolledBack |-> "absent",
   transactionId |-> 0, transactionIds |-> <<>>, totalTransactions |-> 0,
   error |-> "absent", counts |-> <<>>]

Responded(r) == response[r].status # 0

\* A response's counts field holds the numeric fields of the body, by name
\* (none in a failure response).
\* A failure response.  Its error field names what the body's error text is:
\* the message of the caught error (named by its code) in a 500 response,
\* which builds it from err.message, and a literal text of the handler in
\* the others.
ErrorResponse(st, code, rb) ==
  [status |-> st, success |-> FALSE, code |-> code, rolledBack |-> rb,
   transactionId |-> 0, transactionIds |-> <<>>, totalTransactions |-> 0,
   error |-> IF st = 500 THEN code ELSE "literal", counts |-> <<>>]

\* A success response carrying the single transaction's id (0: not carried).
SuccessResponse(tx) ==
  [status |-> 200, success |-> TRUE, code |-> "absent", rolledBack |-> "absent",
   transactionId |-> tx, transactionIds |-> <<>>, totalTransactions |-> 0,
   error |-> "absent", counts |-> <<>>]

\* ------------------------------------------------------------ remote store

Call(r, op, tx, row, ok) ==
  [run |-> r, op |-> op, tx |-> tx, row |-> row, ok |-> ok, code |-> NoError]

\* A call the store answered with an error of code c.
Failed(r, op, tx, row, c) ==
  [run |-> r, op |-> op, tx |-> tx, row |-> row, ok |-> FALSE, code |-> c]

NoRow == <<"none", 0, "">>

\* createTransaction answered: a new open transaction, its id the next index.
StoreOpen == Append(txs, [status |-> "open", writes |-> <<>>])

\* createRow answered: the write is staged in the transaction.
StoreStage(tx, row) ==
  [txs EXCEPT ![tx].writes = Append(@, row)]

Range(s) == {s[k] : k \in 1..Len(s)}

\* The store accepts a commit only of an open transaction none of whose rows
\* already exists (row identifiers are primary keys).
StoreCanCommit(tx) ==
  /\ txs[tx].status = "open"
  /\ Range(txs[tx].writes) \cap rows = {}

StoreCommit(tx) == [txs EXCEPT ![tx].status = "committed"]

\* A transaction ends committed or rolled back, never both: the store answers
\* a rollback of a transaction that is no longer open with an error, and a
\* committed transaction keeps its rows.
StoreCanRollback(tx) == txs[tx].status = "open"

\* A rollback discards the staged writes of the transaction.
StoreRollback(tx) == [txs EXCEPT ![tx].status = "rolledback"]

\* ---------------------------------------------------------------- helpers

Goto(r, l) == pc' = [pc EXCEPT ![r] = l]

Throw(r, code, l) ==
  /\ err' = [err EXCEPT ![r] = code]
  /\ pc' = [pc EXCEPT ![r] = l]

Log(c) == calls' = Append(calls, c)

\* Mutant: the slice includes its end position.
Slice_EndInclusive(n, i) ==
  [k \in 1..(Min(i + maxOperationsPerTransaction + 1, n) - i) |-> i + k]

\* ingredients.slice(i, i + productsPerTransaction), as input positions.
Slice(n, i) ==
  [k \in 1..(Min(i + maxOperationsPerTransaction, n) - i) |-> i + k]

\* Mutant: the loop also runs for i = ingredients.length.
LoopContinues_Inclusive(q, i) == q.ingredients = "array" /\ i <= q.len

\* for (let i = 0; i < ingredients.length; i += productsPerTransaction)
LoopContinues(q, i) == HasIngredients(q) /\ i < q.len

Set1(f, r, v) == [f EXCEPT ![r] = v]

\* --------------------------------------------------- part_002: the handler
\* Multi-transaction writer (part_002 lines 16-269).

\* Lines 23-36: parse req.body, destructure, validate.
P2_Parse(r) ==
  /\ variant[r] = "p002" /\ pc[r] = "start"
  /\ LET q == input[r] IN
       \/ /\ q.bodyKind \in {"badjson", "absent"}
          \* JSON.parse throws, or destructuring undefined throws
          /\ Throw(r, "undefined", "catch")
          /\ UNCHANGED response
       \/ /\ q.bodyKind \in {"jsonstring", "object"}
          /\ MissingField(q)
          /\ response' = Set1(response, r, ErrorResponse(400, "absent", "absent"))
          /\ Goto(r, "done")
          /\ UNCHANGED err
       \/ /\ q.bodyKind \in {"jsonstring", "object"}
          /\ ~MissingField(q)
          /\ Goto(r, "openMain")
          /\ UNCHANGED <<err, response>>
  /\ UNCHANGED <<variant, input, expense, allTransactions, transactionId, loopI, loopJ,
                 rbIdx, attempt, txs, rows, calls>>

\* Lines 60-64: createTransaction for the parent, push its id on the ledger.
P2_OpenMain(r) ==
  /\ variant[r] = "p002" /\ pc[r] = "openMain"
  /\ \/ /\ txs' = StoreOpen
        /\ transactionId' = Set1(transactionId, r, Len(txs) + 1)
        /\ allTransactions' =
             Set1(allTransactions, r, Append(allTransactions[r], Len(txs) + 1))
        /\ Log(Call(r, "createTransaction", Len(txs) + 1, NoRow, TRUE))
        /\ Goto(r, "stageMain")
        /\ UNCHANGED err
     \/ /\ \E c \in RemoteCodes :
             /\ Throw(r, c, "catch")
             /\ Log(Failed(r, "createTransaction", 0, NoRow, c))
        /\ UNCHANGED <<txs, transactionId, allTransactions>>
  /\ UNCHANGED <<variant, input, expense, loopI, loopJ, rbIdx, attempt, response, rows>>

\* Mutant: a failed createRow of the parent is issued again.
P2_StageMain_Retries(r) ==
  /\ variant[r] = "p002" /\ pc[r] = "stageMain"
  /\ LET tx == transactionId[r]
         row == MainRow(input[r].eventId) IN
       \/ /\ txs' = StoreStage(tx, row)
          /\ Log(Call(r, "createRow", tx, row, TRUE))
          /\ Goto(r, "commitMain")
       \/ /\ \E c \in RemoteCodes : Log(Failed(r, "createRow", tx, row, c))
          /\ UNCHANGED <<txs, pc>>
  /\ UNCHANGED <<variant, input, expense, allTransactions, transactionId,
                 loopI, loopJ, err, rbIdx, attempt, response, rows>>

\* Lines 67-82: createRow of the parent in the parent's transaction.
P2_StageMain(r) ==
  /\ variant[r] = "p002" /\ pc[r] = "stageMain"
  /\ LET tx == transactionId[r]
         row == MainRow(input[r].eventId) IN
       \/ /\ txs' = StoreStage(tx, row)
          /\ Log(Call(r, "createRow", tx, row, TRUE))
          /\ Goto(r, "commitMain")
          /\ UNCHANGED err
       \/ /\ \E c \in RemoteCodes :
               /\ Throw(r, c, "catch")
               /\ Log(Failed(r, "createRow", tx, row, c))
          /\ UNCHANGED txs
  /\ UNCHANGED <<variant, input, expense, allTransactions, transactionId, loopI, loopJ,
                 rbIdx, attempt, response, rows>>

\* Mutant: the commit of the parent's transaction is issued once more after
\* it was acknowledged.
P2_CommitMain_Twice(r) ==
  /\ variant[r] = "p002" /\ pc[r] = "commitMain"
  /\ LET tx == transactionId[r] IN
       \/ /\ StoreCanCommit(tx)
          /\ txs' = StoreCommit(tx)
          /\ rows' = rows \cup Range(txs[tx].writes)
          /\ Log(Call(r, "commit", tx, NoRow, TRUE))
          /\ UNCHANGED <<err, pc, loopI>>
       \/ /\ \E c \in RemoteCodes :
               /\ Throw(r, c, "catch")
               /\ Log(Failed(r, "commit", tx, NoRow, c))
          /\ UNCHANGED <<txs, rows, loopI>>
  /\ UNCHANGED <<variant, input, expense, allTransactions, transactionId, loopJ,
                 rbIdx, attempt, response>>

\* Lines 89-108: commit the parent's transaction, then enter the batch loop
\* (i = 0) when there are ingredients.
P2_CommitMain(r) ==
  /\ variant[r] = "p002" /\ pc[r] = "commitMain"
  /\ LET tx == transactionId[r] IN
       \/ /\ StoreCanCommit(tx)
          /\ txs' = StoreCommit(tx)
          /\ rows' = rows \cup Range(txs[tx].writes)
          /\ Log(Call(r, "commit", tx, NoRow, TRUE))
          /\ loopI' = Set1(loopI, r, 0)
          /\ Goto(r, IF LoopContinues(input[r], 0) THEN "openBatch" ELSE "success")
          /\ UNCHANGED err
       \/ /\ \E c \in RemoteCodes :
               /\ Throw(r, c, "catch")
               /\ Log(Failed(r, "commit", tx, NoRow, c))
          /\ UNCHANGED <<txs, rows, loopI>>
  /\ UNCHANGED <<variant, input, expense, allTransactions, transactionId, loopJ,
                 rbIdx, attempt, response>>

\* Lines 109-124: slice, createTransaction for the batch, push its id.
\* Mutant: the batch transaction is opened and recorded, but the children
\* keep being staged into (and the commit issued for) the previous
\* transaction.
P2_OpenBatch_KeepsId(r) ==
  /\ variant[r] = "p002" /\ pc[r] = "openBatch"
  /\ \/ /\ txs' = StoreOpen
        /\ allTransactions' =
             Set1(allTransactions, r, Append(allTransactions[r], Len(txs) + 1))
        /\ Log(Call(r, "createTransaction", Len(txs) + 1, NoRow, TRUE))
        /\ loopJ' = Set1(loopJ, r, 0)
        /\ Goto(r, IF Len(Slice(input[r].len, loopI[r])) > 0
                   THEN "stageChild" ELSE "commitBatch")
        /\ UNCHANGED <<err, transactionId>>
     \/ /\ \E c \in RemoteCodes :
             /\ Throw(r, c, "catch")
             /\ Log(Failed(r, "createTransaction", 0, NoRow, c))
        /\ UNCHANGED <<txs, transactionId, allTransactions, loopJ>>
  /\ UNCHANGED <<variant, input, expense, loopI, rbIdx, attempt, response, rows>>

P2_OpenBatch(r) ==
  /\ variant[r] = "p002" /\ pc[r] = "openBatch"
  /\ \/ /\ txs' = StoreOpen
        /\ transactionId' = Set1(transactionId, r, Len(txs) + 1)
        /\ allTransactions' =
             Set1(allTransactions, r, Append(allTransactions[r], Len(txs) + 1))
        /\ Log(Call(r, "createTransaction", Len(txs) + 1, NoRow, TRUE))
        /\ loopJ' = Set1(loopJ, r, 0)
        \* for (const ingredient of transactionIngredients)
        /\ Goto(r, IF Len(Slice(input[r].len, loopI[r])) > 0
                   THEN "stageChild" ELSE "commitBatch")
        /\ UNCHANGED err
     \/ /\ \E c \in RemoteCodes :
             /\ Throw(r, c, "catch")
             /\ Log(Failed(r, "createTransaction", 0, NoRow, c))
        /\ UNCHANGED <<txs, transactionId, allTransactions, loopJ>>
  /\ UNCHANGED <<variant, input, expense, loopI, rbIdx, attempt, response, rows>>

\* Lines 130-162: createRow of the next ingredient of the slice.
P2_StageChild(r) ==
  /\ variant[r] = "p002" /\ pc[r] = "stageChild"
  /\ LET tx == transactionId[r]
         slice == Slice(input[r].len, loopI[r])
         row == ProductRow(slice[loopJ[r] + 1], input[r].eventId) IN
       \/ /\ txs' = StoreStage(tx, row)
          /\ Log(Call(r, "createRow", tx, row, TRUE))
          /\ loopJ' = Set1(loopJ, r, loopJ[r] + 1)
          /\ Goto(r, IF loopJ[r] + 1 < Len(slice) THEN "stageChild" ELSE "commitBatch")
          /\ UNCHANGED err
       \/ /\ \E c \in RemoteCodes :
               /\ Throw(r, c, "catch")
               /\ Log(Failed(r, "createRow", tx, row, c))
          /\ UNCHANGED <<txs, loopJ>>
  /\ UNCHANGED <<variant, input, expense, allTransactions, transactionId, loopI,
                 rbIdx, attempt, response, rows>>

\* Mutant: a failed commit of a batch is ignored and the loop goes on.
P2_CommitBatch_IgnoresFailure(r) ==
  /\ variant[r] = "p002" /\ pc[r] = "commitBatch"
  /\ LET tx == transactionId[r]
         next == loopI[r] + maxOperationsPerTransaction IN
       /\ \/ /\ StoreCanCommit(tx)
             /\ txs' = StoreCommit(tx)
             /\ rows' = rows \cup Range(txs[tx].writes)
             /\ Log(Call(r, "commit", tx, NoRow, TRUE))
          \/ /\ Log(Call(r, "commit", tx, NoRow, FALSE))
             /\ UNCHANGED <<txs, rows>>
       /\ loopI' = Set1(loopI, r, next)
       /\ Goto(r, IF LoopContinues(input[r], next) THEN "openBatch" ELSE "success")
  /\ UNCHANGED <<variant, input, expense, allTransactions, transactionId, loopJ,
                 rbIdx, attempt, response, err>>

\* Mutant: the loop index is not advanced after the commit of a batch.
P2_CommitBatch_NoAdvance(r) ==
  /\ variant[r] = "p002" /\ pc[r] = "commitBatch"
  /\ LET tx == transactionId[r] IN
       \/ /\ StoreCanCommit(tx)
          /\ txs' = StoreCommit(tx)
          /\ rows' = rows \cup Range(txs[tx].writes)
          /\ Log(Call(r, "commit", tx, NoRow, TRUE))
          /\ Goto(r, "openBatch")
          /\ UNCHANGED err
       \/ /\ \E c \in RemoteCodes :
               /\ Throw(r, c, "catch")
               /\ Log(Failed(r, "commit", tx, NoRow, c))
          /\ UNCHANGED <<txs, rows>>
  /\ UNCHANGED <<variant, input, expense, allTransactions, transactionId,
                 loopI, loopJ, rbIdx, attempt, response>>

\* Lines 171-179 and the loop step of line 108: commit the batch, i += 99.
P2_CommitBatch(r) ==
  /\ variant[r] = "p002" /\ pc[r] = "commitBatch"
  /\ LET tx == transactionId[r]
         next == loopI[r] + maxOperationsPerTransaction IN
       \/ /\ StoreCanCommit(tx)
          /\ txs' = StoreCommit(tx)
          /\ rows' = rows \cup Range(txs[tx].writes)
          /\ Log(Call(r, "commit", tx, NoRow, TRUE))
          /\ loopI' = Set1(loopI, r, next)
          /\ Goto(r, IF LoopContinues(input[r], next) THEN "openBatch" ELSE "success")
          /\ UNCHANGED err
       \/ /\ \E c \in RemoteCodes :
               /\ Throw(r, c, "catch")
               /\ Log(Failed(r, "commit", tx, NoRow, c))
          /\ UNCHANGED <<txs, rows, loopI>>
  /\ UNCHANGED <<variant, input, expense, allTransactions, transactionId, loopJ,
                 rbIdx, attempt, response>>

\* Lines 191-198: the success response.
P2_Success(r) ==
  /\ variant[r] = "p002" /\ pc[r] = "success"
  /\ response' =
       Set1(response, r,
            [status |-> 200, success |-> TRUE, code |-> "absent",
             rolledBack |-> "absent", transactionId |-> 0,
             transactionIds |-> allTransactions[r],
             totalTransactions |-> Len(allTransactions[r]),
             error |-> "absent",
             counts |-> [totalTransactions |-> Len(allTransactions[r])]])
  /\ Goto(r, "done")
  /\ UNCHANGED <<variant, input, expense, locals, txs, rows, calls>>

\* Lines 199-208: the catch block is entered; the rollback loop starts when the
\* ledger is not empty.
P2_Catch(r) ==
  /\ variant[r] = "p002" /\ pc[r] = "catch"
  /\ rbIdx' = Set1(rbIdx, r, 1)
  /\ attempt' = Set1(attempt, r, 0)
  /\ Goto(r, IF Len(allTransactions[r]) > 0 THEN "rollback" ELSE "mapError")
  /\ UNCHANGED <<variant, input, expense, allTransactions, transactionId, loopI, loopJ,
                 err, response, txs, rows, calls>>

\* Mutant: a failed attempt gives up on the whole rollback loop.
P2_RollbackNext_StopsAtFailure(r, retry) ==
  IF retry
  THEN /\ attempt' = Set1(attempt, r, attempt[r] + 1)
       /\ rbIdx' = Set1(rbIdx, r, Len(allTransactions[r]) + 1)
       /\ Goto(r, "mapError")
  ELSE /\ attempt' = Set1(attempt, r, 0)
       /\ rbIdx' = Set1(rbIdx, r, rbIdx[r] + 1)
       /\ Goto(r, IF rbIdx[r] + 1 <= Len(allTransactions[r])
                  THEN "rollback" ELSE "mapError")

\* After an attempt on ledger entry k: retry, or move to the next entry.
P2_RollbackNext(r, retry) ==
  IF retry
  THEN /\ attempt' = Set1(attempt, r, attempt[r] + 1)
       /\ UNCHANGED <<rbIdx, pc>>
  ELSE /\ attempt' = Set1(attempt, r, 0)
       /\ rbIdx' = Set1(rbIdx, r, rbIdx[r] + 1)
       /\ Goto(r, IF rbIdx[r] + 1 <= Len(allTransactions[r])
                  THEN "rollback" ELSE "mapError")

\* Mutant: one attempt more before giving up.
RetryRollback_FourAttempts(a) == a < maxRollbackAttempts

\* if (attempt < 2) wait and retry, else throw (line 224-231)
RetryRollback(a) == a < maxRollbackAttempts - 1

\* Mutant: the error of a failed rollback replaces the caught error.
P2_ErrAfterRollback_Masked(e, rollbackError) == rollbackError

\* Lines 223-243: a failed rollback is caught as rollbackError (and, once the
\* attempts are used up, as txError); both are logged and dropped, and the
\* err of the outer catch (line 199) stays what it was.
P2_ErrAfterRollback(e, rollbackError) == e

\* Lines 208-245: one rollback call for the current ledger entry.
P2_Rollback(r) ==
  /\ variant[r] = "p002" /\ pc[r] = "rollback"
  /\ LET tx == allTransactions[r][rbIdx[r]] IN
       \/ /\ StoreCanRollback(tx)
          /\ txs' = StoreRollback(tx)
          /\ Log(Call(r, "rollback", tx, NoRow, TRUE))
          /\ P2_RollbackNext(r, FALSE)
          /\ UNCHANGED err
       \/ /\ \E rollbackError \in RemoteCodes :
               err' = Set1(err, r, P2_ErrAfterRollback(err[r], rollbackError))
          /\ Log(Call(r, "rollback", tx, NoRow, FALSE))
          /\ P2_RollbackNext(r, RetryRollback(attempt[r]))
          /\ UNCHANGED txs
  /\ UNCHANGED <<variant, input, expense, allTransactions, transactionId, loopI, loopJ,
                 response, rows>>

\* err.code === 409 || err.code === 'document_already_exists'
P2_IsConflict(c) == c \in {"409", "document_already_exists"}

\* Lines 248-267: the failure response.
P2_ErrorResponse(c, ledger) ==
  IF P2_IsConflict(c)
  THEN ErrorResponse(409, "conflict", "absent")
  ELSE ErrorResponse(500, c, IF Len(ledger) > 0 THEN "true" ELSE "false")

P2_MapError(r) ==
  /\ variant[r] = "p002" /\ pc[r] = "mapError"
  /\ response' = Set1(response, r, P2_ErrorResponse(err[r], allTransactions[r]))
  /\ Goto(r, "done")
  /\ UNCHANGED <<variant, input, expense, locals, txs, rows, calls>>

P2_Step(r) ==
  \/ P2_Parse(r)
  \/ P2_OpenMain(r)
  \/ P2_StageMain(r)
  \/ P2_CommitMain(r)
  \/ P2_OpenBatch(r)
  \/ P2_StageChild(r)
  \/ P2_CommitBatch(r)
  \/ P2_Success(r)
  \/ P2_Catch(r)
  \/ P2_Rollback(r)
  \/ P2_MapError(r)

\* ------------------------------------------ the single-transaction handlers
\* main.js, part_003, part_004 and part_005 share their steps; each step names
\* the handlers it belongs to.

Respond(r, resp) ==
  /\ response' = Set1(response, r, resp)
  /\ Goto(r, "done")

\* A remote call answered with an error: the handler resumes in its catch.
RemoteFails(r, op, tx, row) ==
  \E c \in RemoteCodes :
    /\ Throw(r, c, "catch")
    /\ Log(Failed(r, op, tx, row, c))

\* The request object the handler destructures, or why there is none:
\* "throws" when parsing or destructuring raises, "fields" when the four
\* fields are read from the request, "nofields" when they are read from a
\* string (all undefined).
\* main.js lines 25-43.
M_Parsed(q) ==
  LET src == IF q.payloadKind # "absent" THEN q.payloadKind ELSE q.bodyKind IN
    IF src \in {"absent", "badjson"} THEN "throws" ELSE "fields"

\* part_003 lines 21-24, part_005 lines 21-24 (as part_002 lines 23-26).
P3_Parsed(q) ==
  IF q.bodyKind \in {"absent", "badjson"} THEN "throws" ELSE "fields"

\* part_004 line 19: req.body is destructured as it arrives.
P4_Parsed(q) ==
  CASE q.bodyKind = "absent" -> "throws"
    [] q.bodyKind = "object" -> "fields"
    [] OTHER -> "nofields"

Parsed(v, q) ==
  CASE v = "main" -> M_Parsed(q)
    [] v = "p004" -> P4_Parsed(q)
    [] OTHER -> P3_Parsed(q)

\* The handlers that query for the parent before they open a transaction.
HasExistenceQuery(v) == v \in {"main", "p003", "p004"}

\* main.js 25-67, part_003 21-34, part_004 19-29, part_005 21-34.
S_Parse(r) ==
  /\ variant[r] \in {"main", "p003", "p004", "p005"} /\ pc[r] = "start"
  /\ LET q == input[r]
         how == Parsed(variant[r], q) IN
       \/ /\ how = "throws"
          /\ Throw(r, "undefined", "catch")
          /\ UNCHANGED response
       \/ /\ how = "nofields" \/ (how = "fields" /\ MissingField(q))
          /\ Respond(r, ErrorResponse(400, "absent", "absent"))
          /\ UNCHANGED err
       \/ /\ how = "fields" /\ ~MissingField(q)
          /\ Goto(r, IF HasExistenceQuery(variant[r]) THEN "getDocument" ELSE "open")
          /\ UNCHANGED <<err, response>>
  /\ UNCHANGED <<variant, input, expense, allTransactions, transactionId, loopI, loopJ,
                 rbIdx, attempt, txs, rows, calls>>

\* Mutant: the found record is logged but the handler does not return.
S_GetDocument_NoReturn(r) ==
  /\ variant[r] \in {"main", "p003", "p004"} /\ pc[r] = "getDocument"
  /\ LET row == MainRow(input[r].eventId) IN
       \/ /\ Log(Call(r, "getDocument", 0, row, row \in rows))
          /\ Goto(r, "open")
          /\ UNCHANGED <<err, response>>
       \/ /\ \E c \in RemoteCodes \ {"404"} :
               /\ Throw(r, c, "catch")
               /\ Log(Failed(r, "getDocument", 0, row, c))
          /\ UNCHANGED response
  /\ UNCHANGED <<variant, input, expense, allTransactions, transactionId, loopI, loopJ,
                 rbIdx, attempt, txs, rows>>

\* main.js 82-100, part_003 49-67, part_004 44-62: the existence query.
\* Mutant: the catch of the existence query swallows every error, not only
\* code 404.
S_GetDocument_SwallowsAll(r) ==
  /\ variant[r] \in {"main", "p003", "p004"} /\ pc[r] = "getDocument"
  /\ LET row == MainRow(input[r].eventId) IN
       \/ /\ row \in rows
          /\ Log(Call(r, "getDocument", 0, row, TRUE))
          /\ Respond(r, ErrorResponse(409, "already_exists", "absent"))
          /\ UNCHANGED err
       \/ /\ row \notin rows
          /\ Log(Failed(r, "getDocument", 0, row, "404"))
          /\ Goto(r, "open")
          /\ UNCHANGED <<err, response>>
       \/ /\ \E c \in RemoteCodes \ {"404"} :
               Log(Failed(r, "getDocument", 0, row, c))
          /\ Goto(r, "open")
          /\ UNCHANGED <<err, response>>
  /\ UNCHANGED <<variant, input, expense, allTransactions, transactionId, loopI, loopJ,
                 rbIdx, attempt, txs, rows>>

S_GetDocument(r) ==
  /\ variant[r] \in {"main", "p003", "p004"} /\ pc[r] = "getDocument"
  /\ LET row == MainRow(input[r].eventId) IN
       \/ /\ row \in rows
          /\ Log(Call(r, "getDocument", 0, row, TRUE))
          /\ Respond(r, ErrorResponse(409, "already_exists", "absent"))
          /\ UNCHANGED err
       \/ /\ row \notin rows
          \* error.code === 404: the document does not exist
          /\ Log(Failed(r, "getDocument", 0, row, "404"))
          /\ Goto(r, "open")
          /\ UNCHANGED <<err, response>>
       \/ /\ \E c \in RemoteCodes \ {"404"} :
               /\ Throw(r, c, "catch")
               /\ Log(Failed(r, "getDocument", 0, row, c))
          /\ UNCHANGED response
  /\ UNCHANGED <<variant, input, expense, allTransactions, transactionId, loopI, loopJ,
                 rbIdx, attempt, txs, rows>>

\* The local that holds the transaction's id outlives the try block only in
\* part_003 and part_005 (let transactionId, line 17); in main.js and
\* part_004 it is a const of the try block.
S_NextAfterOpen(v) ==
  IF v \in {"main", "p004"} THEN "stageOps" ELSE "stageMain"

\* main.js 103, part_003 70-74, part_004 65, part_005 51-55.
S_Open(r) ==
  /\ variant[r] \in {"main", "p003", "p004", "p005"} /\ pc[r] = "open"
  /\ \/ /\ txs' = StoreOpen
        /\ transactionId' = Set1(transactionId, r, Len(txs) + 1)
        /\ Log(Call(r, "createTransaction", Len(txs) + 1, NoRow, TRUE))
        /\ Goto(r, S_NextAfterOpen(variant[r]))
        /\ UNCHANGED err
     \/ /\ RemoteFails(r, "createTransaction", 0, NoRow)
        /\ UNCHANGED <<txs, transactionId>>
  /\ UNCHANGED <<variant, input, expense, allTransactions, loopI, loopJ, rbIdx, attempt,
                 response, rows>>

\* eventData.ingredients.map(...): the child rows, in input order.
ProductRows(q) ==
  IF HasIngredients(q)
  THEN [k \in 1..q.len |-> ProductRow(k, q.eventId)]
  ELSE <<>>

\* Mutant: the create of the parent is left out of the operations.
Operations_ChildrenOnly(q) == ProductRows(q)

\* main.js 107-166, part_004 69-128: the create of the parent, then one
\* bulkCreate of all the children.
Operations(q) == <<MainRow(q.eventId)>> \o ProductRows(q)

StoreStageAll(tx, ws) == [txs EXCEPT ![tx].writes = @ \o ws]

\* Mutant: before staging, the handler looks for another open transaction
\* that holds a create of the same parent and answers already_exists.
MP4_CreateOperations_Guarded(r) ==
  /\ variant[r] \in {"main", "p004"} /\ pc[r] = "stageOps"
  /\ LET tx == transactionId[r]
         taken == \E t \in 1..Len(txs) :
                    /\ t # tx /\ txs[t].status = "open"
                    /\ MainRow(input[r].eventId) \in Range(txs[t].writes) IN
       \/ /\ taken
          /\ Respond(r, ErrorResponse(409, "already_exists", "absent"))
          /\ UNCHANGED <<txs, calls, err>>
       \/ /\ ~taken
          /\ txs' = StoreStageAll(tx, Operations(input[r]))
          /\ Log(Call(r, "createOperations", tx, NoRow, TRUE))
          /\ Goto(r, "commit")
          /\ UNCHANGED <<err, response>>
       \/ /\ ~taken
          /\ RemoteFails(r, "createOperations", tx, NoRow)
          /\ UNCHANGED <<txs, response>>
  /\ UNCHANGED <<variant, input, expense, allTransactions, transactionId,
                 loopI, loopJ, rbIdx, attempt, rows>>

\* main.js 173, part_004 135: createOperations(transaction.$id, operations).
MP4_CreateOperations(r) ==
  /\ variant[r] \in {"main", "p004"} /\ pc[r] = "stageOps"
  /\ LET tx == transactionId[r] IN
       \/ /\ txs' = StoreStageAll(tx, Operations(input[r]))
          /\ Log(Call(r, "createOperations", tx, NoRow, TRUE))
          /\ Goto(r, "commit")
          /\ UNCHANGED err
       \/ /\ RemoteFails(r, "createOperations", tx, NoRow)
          /\ UNCHANGED txs
  /\ UNCHANGED <<variant, input, expense, allTransactions, transactionId, loopI, loopJ,
                 rbIdx, attempt, response, rows>>

\* part_005 line 82: const batchSize = 100
batchSize == 100

\* part_005 line 90: ingredients.slice(i, i + batchSize), as input positions.
P5_Slice(n, i) == [k \in 1..(Min(i + batchSize, n) - i) |-> i + k]

\* After the parent is staged: part_003 stages the children in one createRows
\* call, part_005 row by row; without ingredients both go to the commit.
P35_AfterMain(v, q) ==
  CASE ~HasIngredients(q) -> "commit"
    [] v = "p003" -> "stageRows"
    [] q.len > 0 -> "stageChild"
    [] OTHER -> "commit"

\* part_003 78-93 (createDocument), part_005 60-75 (createRow): the parent.
P35_StageMain(r) ==
  /\ variant[r] \in {"p003", "p005"} /\ pc[r] = "stageMain"
  /\ LET tx == transactionId[r]
         row == MainRow(input[r].eventId) IN
       \/ /\ txs' = StoreStage(tx, row)
          /\ Log(Call(r, "createRow", tx, row, TRUE))
          /\ loopI' = Set1(loopI, r, 0)
          /\ loopJ' = Set1(loopJ, r, 0)
          /\ Goto(r, P35_AfterMain(variant[r], input[r]))
          /\ UNCHANGED err
       \/ /\ RemoteFails(r, "createRow", tx, row)
          /\ UNCHANGED <<txs, loopI, loopJ>>
  /\ UNCHANGED <<variant, input, expense, allTransactions, transactionId, rbIdx, attempt,
                 response, rows>>

\* part_003 98-129: createRows of all the children in the transaction.
P3_CreateRows(r) ==
  /\ variant[r] = "p003" /\ pc[r] = "stageRows"
  /\ LET tx == transactionId[r] IN
       \/ /\ txs' = StoreStageAll(tx, ProductRows(input[r]))
          /\ Log(Call(r, "createRows", tx, NoRow, TRUE))
          /\ Goto(r, "commit")
          /\ UNCHANGED err
       \/ /\ RemoteFails(r, "createRows", tx, NoRow)
          /\ UNCHANGED txs
  /\ UNCHANGED <<variant, input, expense, allTransactions, transactionId, loopI, loopJ,
                 rbIdx, attempt, response, rows>>

\* part_005 89-135: createRow of the next child; the lots of batchSize share
\* the one transaction.
P5_StageChild(r) ==
  /\ variant[r] = "p005" /\ pc[r] = "stageChild"
  /\ LET tx == transactionId[r]
         q == input[r]
         batch == P5_Slice(q.len, loopI[r])
         row == ProductRow(batch[loopJ[r] + 1], q.eventId)
         lotDone == loopJ[r] + 1 >= Len(batch)
         nextI == IF lotDone THEN loopI[r] + batchSize ELSE loopI[r] IN
       \/ /\ txs' = StoreStage(tx, row)
          /\ Log(Call(r, "createRow", tx, row, TRUE))
          /\ loopI' = Set1(loopI, r, nextI)
          /\ loopJ' = Set1(loopJ, r, IF lotDone THEN 0 ELSE loopJ[r] + 1)
          /\ Goto(r, IF nextI < q.len THEN "stageChild" ELSE "commit")
          /\ UNCHANGED err
       \/ /\ RemoteFails(r, "createRow", tx, row)
          /\ UNCHANGED <<txs, loopI, loopJ>>
  /\ UNCHANGED <<variant, input, expense, allTransactions, transactionId, rbIdx, attempt,
                 response, rows>>

\* main.js 177, part_003 137-140, part_004 139, part_005 143-146.
S_Commit(r) ==
  /\ variant[r] \in {"main", "p003", "p004", "p005"} /\ pc[r] = "commit"
  /\ LET tx == transactionId[r] IN
       \/ /\ StoreCanCommit(tx)
          /\ txs' = StoreCommit(tx)
          /\ rows' = rows \cup Range(txs[tx].writes)
          /\ Log(Call(r, "commit", tx, NoRow, TRUE))
          /\ Goto(r, "success")
          /\ UNCHANGED err
       \/ /\ RemoteFails(r, "commit", tx, NoRow)
          /\ UNCHANGED <<txs, rows>>
  /\ UNCHANGED <<variant, input, expense, allTransactions, transactionId, loopI, loopJ,
                 rbIdx, attempt, response>>

\* main.js 182-186 and part_004 144-148 answer without the transaction's id,
\* part_003 144-149 and part_005 150-155 with it.
S_Success(r) ==
  /\ variant[r] \in {"main", "p003", "p004", "p005"} /\ pc[r] = "success"
  /\ Respond(r, SuccessResponse(IF variant[r] \in {"p003", "p005"}
                                THEN transactionId[r] ELSE 0))
  /\ UNCHANGED <<variant, input, expense, locals, txs, rows, calls>>

\* Mutant: an exceeded transaction limit is answered like any other error.
M_ErrorResponse_No429(c) ==
  IF c = "conflict"
  THEN ErrorResponse(409, "conflict", "absent")
  ELSE ErrorResponse(500, c, "absent")

\* main.js 194-221, part_004 155-178: the failure response.
M_ErrorResponse(c) ==
  CASE c = "conflict" -> ErrorResponse(409, "conflict", "absent")
    [] c = "transaction_limit_exceeded" ->
         ErrorResponse(429, "transaction_limit_exceeded", "absent")
    [] OTHER -> ErrorResponse(500, c, "absent")

\* part_003 169-187, part_005 176-193: the failure response.
P35_ErrorResponse(c, tx) ==
  IF c \in {"409", "document_already_exists"}
  THEN ErrorResponse(409, "conflict", "absent")
  ELSE ErrorResponse(500, c, IF tx # 0 THEN "true" ELSE "false")

\* The catch blocks.  main.js (187-222) and part_004 (149-179) issue no
\* rollback.  part_003 (157-166) calls databases.updateTransaction, but
\* databases is a const of the try block and is not in scope in the catch;
\* part_005 (161-173) calls TablesDB.updateTransaction on the class, not on
\* the instance tablesDB: both raise before any call is issued, and the
\* surrounding try/catch logs the exception.  The response follows.
S_Catch(r) ==
  /\ variant[r] \in {"main", "p003", "p004", "p005"} /\ pc[r] = "catch"
  /\ Respond(r, IF variant[r] \in {"main", "p004"}
                THEN M_ErrorResponse(err[r])
                ELSE P35_ErrorResponse(err[r], transactionId[r]))
  /\ UNCHANGED <<variant, input, expense, locals, txs, rows, calls>>

S_Step(r) ==
  \/ S_Parse(r)
  \/ S_GetDocument(r)
  \/ S_Open(r)
  \/ MP4_CreateOperations(r)
  \/ P35_StageMain(r)
  \/ P3_CreateRows(r)
  \/ P5_StageChild(r)
  \/ S_Commit(r)
  \/ S_Success(r)
  \/ S_Catch(r)

\* ------------------------------------------------------------ specification

IdleRequest ==
  [payloadKind |-> "absent", bodyKind |-> "absent", eventId |-> "",
   eventData |-> FALSE, contentHash |-> FALSE, userId |-> FALSE,
   ingredients |-> "absent", len |-> 0]

InitLocals ==
  /\ allTransactions = [r \in Runs |-> <<>>]
  /\ transactionId = [r \in Runs |-> 0]
  /\ loopI = [r \in Runs |-> 0]
  /\ loopJ = [r \in Runs |-> 0]
  /\ err = [r \in Runs |-> NoError]
  /\ rbIdx = [r \in Runs |-> 0]
  /\ attempt = [r \in Runs |-> 0]
  /\ response = [r \in Runs |-> NoResponse]
  /\ calls = <<>>
  /\ txs = <<>>
  /\ expense = [r \in Runs |-> [tx |-> 0, result |-> FALSE]]

\* One invocation of one handler on an empty or already populated store.
Init ==
  /\ InitLocals
  /\ \E v \in Variants : \E q \in RequestsOf(v) :
       /\ q.eventId \in {"", "E1"}
       /\ variant = [r \in Runs |-> v]
       /\ input = [r \in Runs |-> IF r = 1 THEN q ELSE IdleRequest]
  /\ pc = [r \in Runs |-> IF r = 1 THEN "start" ELSE "idle"]
  /\ rows \in {{}, {MainRow("E1")}}

Next == \E r \in Runs : P2_Step(r) \/ S_Step(r)

Spec == Init /\ [][Next]_vars

\* Two invocations of the multi-transaction writer, one after the other: the
\* second starts once the first has responded.
SeqLens == {n \in Lens : n <= 1}

\* Valid requests with an ingredient array.
SeqRequests ==
  {q \in RequestsOf("p002") :
     /\ q.bodyKind = "object" /\ ~MissingField(q)
     /\ q.ingredients = "array" /\ q.len \in SeqLens}

\* The first request is for event E1, the second for E1 again or for E2.
InitSeq ==
  /\ InitLocals
  /\ variant = [r \in Runs |-> "p002"]
  /\ input \in {f \in [Runs -> SeqRequests] : f[1].eventId = "E1"}
  /\ pc = [r \in Runs |-> IF r = 1 THEN "start" ELSE "idle"]
  /\ rows = {}

SeqStart ==
  /\ pc[1] = "done" /\ pc[2] = "idle"
  /\ Goto(2, "start")
  /\ UNCHANGED <<variant, input, expense, locals, response, txs, rows, calls>>

NextSeq == SeqStart \/ \E r \in Runs : P2_Step(r)

SpecSeq == InitSeq /\ [][NextSeq]_vars

\* ------------------------------------------------- part_001: the dispatcher
\* The update function (part_001 lines 17-493): batchUpdateProducts and
\* createGroupPurchaseWithSync, one transaction each, and a second
\* transaction for the global expense of a group purchase.

\* Mutant: the local cap one too high.
maxOperations_OneMore == 100 + 1

\* part_001 lines 94 and 375: const maxOperations = 100
maxOperations == 100

\* Lengths of productIds, productsToCreate and purchasesToCreate: around the
\* local cap.
UpdLens == {0, 1, maxOperations, maxOperations + 1}

Operations001 == {"batchUpdateProducts", "createGroupPurchaseWithSync", "unknown"}

\* data of a batchUpdateProducts request: productIds.length, updateType
\* ("" when missing, "other" when unsupported), updateData, whether every id
\* is found in products, and how many of the products (the first nSynced)
\* have isSynced === true.
BatchData ==
  [nIds : UpdLens, updateType : {"", "store", "who", "other"},
   updateData : BOOLEAN, productsFound : BOOLEAN, nSynced : {0, 1}]

\* data of a createGroupPurchaseWithSync request.
GroupData ==
  [mainId : BOOLEAN, batchData : BOOLEAN, invoiceData : BOOLEAN,
   invoiceId : BOOLEAN, invoiceTotal : BOOLEAN,
   nProducts : UpdLens, nPurchases : UpdLens]

NoBatchData ==
  [nIds |-> 0, updateType |-> "", updateData |-> FALSE,
   productsFound |-> FALSE, nSynced |-> 0]

NoGroupData ==
  [mainId |-> FALSE, batchData |-> FALSE, invoiceData |-> FALSE,
   invoiceId |-> FALSE, invoiceTotal |-> FALSE, nProducts |-> 0,
   nPurchases |-> 0]

\* A request of the update function: the body, the operation and data of the
\* parsed payload; batch and group are what data holds for the operation.
UpdateRequest(b, op, hasData, bd, gd) ==
  [bodyKind |-> b, operation |-> op, hasData |-> hasData,
   batch |-> bd, group |-> gd]

UpdateRequests ==
  {UpdateRequest(b, "unknown", FALSE, NoBatchData, NoGroupData) :
     b \in BodyKinds}
  \cup {UpdateRequest("jsonstring", op, FALSE, NoBatchData, NoGroupData) :
          op \in Operations001}
  \cup {UpdateRequest("jsonstring", "batchUpdateProducts", TRUE, bd,
                      NoGroupData) :
          bd \in {d \in BatchData : d.nSynced <= d.nIds}}
  \cup {UpdateRequest("jsonstring", "createGroupPurchaseWithSync", TRUE,
                      NoBatchData, gd) :
          gd \in {d \in GroupData :
                    /\ (~d.batchData => d.nProducts = 0 /\ d.nPurchases = 0)
                    /\ (~d.invoiceData => ~d.invoiceId /\ ~d.invoiceTotal)}}

\* Lines 361-383: what handleBatchUpdateProducts finds before its try block.
U_BatchChecked(d) ==
  CASE d.nIds = 0 \/ d.updateType = "" \/ ~d.updateData -> "missing"
    [] d.nIds > maxOperations -> "toomany"
    [] OTHER -> "ok"

\* Lines 77-110: what handleCreateGroupPurchaseWithSync finds before its try
\* block.
U_GroupChecked(d) ==
  CASE ~d.mainId \/ ~d.batchData \/ ~d.invoiceData -> "missing"
    [] d.nProducts + d.nPurchases > maxOperations -> "toomany"
    [] ~d.invoiceId -> "noinvoice"
    [] OTHER -> "ok"

\* Mutant: the switch has no default case; an operation that is not
\* createGroupPurchaseWithSync is handled as batchUpdateProducts.
U_Checked_NoDefault(q) ==
  CASE q.bodyKind # "jsonstring" -> "badjson"
    [] ~q.hasData -> "throws"
    [] q.operation = "createGroupPurchaseWithSync" -> U_GroupChecked(q.group)
    [] OTHER -> U_BatchChecked(q.batch)

\* Lines 25-59 with the checks of the handler dispatched to: "badjson" when
\* JSON.parse(req.body) throws (a body that is no string is converted to one
\* that is not JSON), "unknown" for the default case, "throws" when the
\* handler destructures an undefined data.
U_Checked(q) ==
  CASE q.bodyKind # "jsonstring" -> "badjson"
    [] q.operation = "unknown" -> "unknown"
    [] ~q.hasData -> "throws"
    [] q.operation = "batchUpdateProducts" -> U_BatchChecked(q.batch)
    [] OTHER -> U_GroupChecked(q.group)

\* { error: e.message } / { success: false, error: transactionError.message }
\* with status 500: the body has no code and no rolledBack field.
U_ErrorResponse(c) ==
  [ErrorResponse(500, "absent", "absent") EXCEPT !.error = c]

\* Lines 30, 54, 80-84, 96-100, 105-109, 365-371, 377-381: the error
\* message of each 400 response (the two "Too many" messages, which embed
\* the counts, are one value here).
U_Message(how, q) ==
  CASE how = "badjson" -> "Invalid JSON payload"
    [] how = "unknown" -> "Unknown operation"
    [] how = "missing" /\ q.operation = "createGroupPurchaseWithSync" ->
         "Missing required parameters: mainId, batchData, invoiceData"
    [] how = "missing" ->
         "Missing required parameters: productIds, updateType, updateData"
    [] how = "toomany" -> "Too many operations"
    [] OTHER -> "invoiceId is required in invoiceData"

U_Rejected(how, q) ==
  [ErrorResponse(400, "absent", "absent") EXCEPT !.error = U_Message(how, q)]

\* Lines 17-110 and 361-383: parse, dispatch, validate.
U_Start(r) ==
  /\ variant[r] = "p001" /\ pc[r] = "start"
  /\ LET how == U_Checked(input[r]) IN
       \/ /\ how = "ok"
          /\ Goto(r, "open")
          /\ UNCHANGED <<err, response>>
       \/ /\ how = "throws"
          /\ err' = Set1(err, r, "undefined")
          /\ Respond(r, U_ErrorResponse("undefined"))
       \/ /\ how \notin {"ok", "throws"}
          /\ Respond(r, U_Rejected(how, input[r]))
          /\ UNCHANGED err
  /\ UNCHANGED <<variant, input, expense, allTransactions, transactionId,
                 loopI, loopJ, rbIdx, attempt, txs, rows, calls>>

\* ---------------------------------------------- part_001: the transactions

IsGroup(q) == q.operation = "createGroupPurchaseWithSync"

\* Mutant: every operation is an update, whatever isSynced is.
U_BatchOperations_AllUpdate(d) ==
  [k \in 1..d.nIds |-> <<"products", k, "update">>]

\* Lines 397-425: one operation per product id, an update for a product with
\* isSynced === true and a create otherwise.
U_BatchOperations(d) ==
  [k \in 1..d.nIds |->
     <<"products", k, IF k <= d.nSynced THEN "update" ELSE "create">>]

\* Lines 130-166: the creates of the products, then those of the purchases.
U_GroupOperations(d) ==
  [k \in 1..d.nProducts |-> <<"products", k, "create">>]
  \o [k \in 1..d.nPurchases |-> <<"purchases", k, "create">>]

U_Operations(q) ==
  IF IsGroup(q) THEN U_GroupOperations(q.group) ELSE U_BatchOperations(q.batch)

\* Lines 400-406 and 345-346: building the operations of a batch update
\* throws when an id is not among products or the update type is unsupported.
U_BuildThrows(q) ==
  /\ ~IsGroup(q)
  /\ ~q.batch.productsFound \/ q.batch.updateType \notin {"store", "who"}

\* Lines 196-215: the create of the global expense.
ExpenseRow == <<"purchases", 0, "expense">>

\* Lines 126 and 393: createTransaction.
U_Open(r) ==
  /\ variant[r] = "p001" /\ pc[r] = "open"
  /\ \/ /\ txs' = StoreOpen
        /\ transactionId' = Set1(transactionId, r, Len(txs) + 1)
        /\ Log(Call(r, "createTransaction", Len(txs) + 1, NoRow, TRUE))
        /\ Goto(r, "stage")
        /\ UNCHANGED err
     \/ /\ RemoteFails(r, "createTransaction", 0, NoRow)
        /\ UNCHANGED <<txs, transactionId>>
  /\ UNCHANGED <<variant, input, expense, allTransactions, loopI, loopJ,
                 rbIdx, attempt, response, rows>>

\* Lines 130-176 and 397-440: build the operations and stage them.
U_CreateOperations(r) ==
  /\ variant[r] = "p001" /\ pc[r] = "stage"
  /\ LET tx == transactionId[r]
         q == input[r] IN
       \/ /\ U_BuildThrows(q)
          /\ Throw(r, "undefined", "catch")
          /\ UNCHANGED <<txs, calls>>
       \/ /\ ~U_BuildThrows(q)
          /\ txs' = StoreStageAll(tx, U_Operations(q))
          /\ Log(Call(r, "createOperations", tx, NoRow, TRUE))
          /\ Goto(r, "commit")
          /\ UNCHANGED err
       \/ /\ ~U_BuildThrows(q)
          /\ RemoteFails(r, "createOperations", tx, NoRow)
          /\ UNCHANGED txs
  /\ UNCHANGED <<variant, input, expense, allTransactions, transactionId,
                 loopI, loopJ, rbIdx, attempt, response, rows>>

\* Lines 189-191: the expense step follows the commit of a group purchase
\* whose invoiceData has an invoiceTotal.
U_AfterCommit(q) ==
  IF IsGroup(q) /\ q.group.invoiceTotal THEN "expOpen" ELSE "success"

\* Lines 181-184 and 445-448: commit.
U_Commit(r) ==
  /\ variant[r] = "p001" /\ pc[r] = "commit"
  /\ LET tx == transactionId[r] IN
       \/ /\ StoreCanCommit(tx)
          /\ txs' = StoreCommit(tx)
          /\ rows' = rows \cup Range(txs[tx].writes)
          /\ Log(Call(r, "commit", tx, NoRow, TRUE))
          /\ Goto(r, U_AfterCommit(input[r]))
          /\ UNCHANGED err
       \/ /\ RemoteFails(r, "commit", tx, NoRow)
          /\ UNCHANGED <<txs, rows>>
  /\ UNCHANGED <<variant, input, expense, allTransactions, transactionId,
                 loopI, loopJ, rbIdx, attempt, response>>

\* Mutant: a failing call of the expense step is not caught by an inner
\* catch; it reaches the handler's catch block.
U_ExpenseFails_Propagates(r, op, tx) ==
  /\ \E c \in RemoteCodes : Log(Failed(r, op, tx, ExpenseRow, c))
  /\ Goto(r, "catch")

\* A call of the expense step that fails: the error is caught by the inner
\* catch (lines 232-237), logged as a warning, and the handler goes on to its
\* success response.
U_ExpenseFails(r, op, tx) ==
  /\ \E c \in RemoteCodes : Log(Failed(r, op, tx, ExpenseRow, c))
  /\ Goto(r, "success")

\* Line 193: createTransaction for the expense.
U_ExpOpen(r) ==
  /\ variant[r] = "p001" /\ pc[r] = "expOpen"
  /\ \/ /\ txs' = StoreOpen
        /\ expense' = Set1(expense, r, [tx |-> Len(txs) + 1, result |-> FALSE])
        /\ Log(Call(r, "createTransaction", Len(txs) + 1, NoRow, TRUE))
        /\ Goto(r, "expStage")
     \/ /\ U_ExpenseFails(r, "createTransaction", 0)
        /\ UNCHANGED <<txs, expense>>
  /\ UNCHANGED <<variant, input, locals, response, rows>>

\* Lines 220-224: createOperations with the one expense operation.
U_ExpCreateOperations(r) ==
  /\ variant[r] = "p001" /\ pc[r] = "expStage"
  /\ LET tx == expense[r].tx IN
       \/ /\ txs' = StoreStageAll(tx, <<ExpenseRow>>)
          /\ Log(Call(r, "createOperations", tx, ExpenseRow, TRUE))
          /\ Goto(r, "expCommit")
       \/ /\ U_ExpenseFails(r, "createOperations", tx)
          /\ UNCHANGED txs
  /\ UNCHANGED <<variant, input, expense, locals, response, rows>>

\* Lines 226-232: commit of the expense transaction; expenseResult is set.
U_ExpCommit(r) ==
  /\ variant[r] = "p001" /\ pc[r] = "expCommit"
  /\ LET tx == expense[r].tx IN
       \/ /\ StoreCanCommit(tx)
          /\ txs' = StoreCommit(tx)
          /\ rows' = rows \cup Range(txs[tx].writes)
          /\ Log(Call(r, "commit", tx, ExpenseRow, TRUE))
          /\ expense' = Set1(expense, r, [tx |-> tx, result |-> TRUE])
          /\ Goto(r, "success")
       \/ /\ U_ExpenseFails(r, "commit", tx)
          /\ UNCHANGED <<txs, rows, expense>>
  /\ UNCHANGED <<variant, input, locals, response>>

\* Lines 241-250 and 452-458: the success response.
U_SuccessResponse(q, tx, expenseResult) ==
  [status |-> 200, success |-> TRUE, code |-> "absent",
   rolledBack |-> "absent", transactionId |-> tx, transactionIds |-> <<>>,
   totalTransactions |-> 0, error |-> "absent",
   counts |-> IF IsGroup(q)
              THEN [productsCreated |-> q.group.nProducts,
                    purchasesCreated |-> q.group.nPurchases,
                    totalOperations |-> q.group.nProducts + q.group.nPurchases]
              ELSE [updatedCount |-> q.batch.nIds],
   expenseCreated |-> expenseResult]

U_Success(r) ==
  /\ variant[r] = "p001" /\ pc[r] = "success"
  /\ Respond(r, U_SuccessResponse(input[r], transactionId[r],
                                  expense[r].result))
  /\ UNCHANGED <<variant, input, expense, locals, txs, rows, calls>>

\* Mutant: the catch block calls rollback without testing `transaction`.
U_Rollback_Unconditional(r) ==
  /\ variant[r] = "p001" /\ pc[r] = "catch"
  /\ LET tx == transactionId[r] IN
       \/ /\ tx # 0 /\ StoreCanRollback(tx)
          /\ txs' = StoreRollback(tx)
          /\ Log(Call(r, "rollback", tx, NoRow, TRUE))
       \/ /\ \E c \in RemoteCodes : Log(Failed(r, "rollback", tx, NoRow, c))
          /\ UNCHANGED txs
  /\ Goto(r, "failed")
  /\ UNCHANGED <<variant, input, expense, locals, response, rows>>

\* Lines 255-274 and 463-482: the catch block calls rollback on the
\* transaction when one was opened; a failure of the call is logged.
U_Rollback(r) ==
  /\ variant[r] = "p001" /\ pc[r] = "catch" /\ transactionId[r] # 0
  /\ LET tx == transactionId[r] IN
       \/ /\ StoreCanRollback(tx)
          /\ txs' = StoreRollback(tx)
          /\ Log(Call(r, "rollback", tx, NoRow, TRUE))
       \/ /\ \E c \in RemoteCodes : Log(Failed(r, "rollback", tx, NoRow, c))
          /\ UNCHANGED txs
  /\ Goto(r, "failed")
  /\ UNCHANGED <<variant, input, expense, locals, response, rows>>

\* Lines 276-283 and 484-491, and lines 56-59 when it is createTransaction
\* that failed (no transaction to roll back): the 500 response.
U_Fail(r) ==
  /\ variant[r] = "p001"
  /\ pc[r] = "failed" \/ (pc[r] = "catch" /\ transactionId[r] = 0)
  /\ Respond(r, U_ErrorResponse(err[r]))
  /\ UNCHANGED <<variant, input, expense, locals, txs, rows, calls>>

U_Step(r) ==
  \/ U_Start(r)
  \/ U_Open(r)
  \/ U_CreateOperations(r)
  \/ U_Commit(r)
  \/ U_ExpOpen(r)
  \/ U_ExpCreateOperations(r)
  \/ U_ExpCommit(r)
  \/ U_Success(r)
  \/ U_Rollback(r)
  \/ U_Fail(r)

\* One invocation of the update function on an empty store.
InitUpdate ==
  /\ InitLocals
  /\ variant = [r \in Runs |-> "p001"]
  /\ \E q \in UpdateRequests :
       input = [r \in Runs |-> IF r = 1 THEN q ELSE IdleRequest]
  /\ pc = [r \in Runs |-> IF r = 1 THEN "start" ELSE "idle"]
  /\ rows = {}

NextUpdate == \E r \in Runs : U_Step(r)

SpecUpdate == InitUpdate /\ [][NextUpdate]_vars

\* ------------------------------------- part_002: runs that are let to finish

\* One invocation of the multi-transaction writer on an empty store.
InitLive ==
  /\ InitLocals
  /\ variant = [r \in Runs |-> "p002"]
  /\ \E q \in RequestsOf("p002") :
       /\ q.eventId \in {"", "E1"}
       /\ input = [r \in Runs |-> IF r = 1 THEN q ELSE IdleRequest]
  /\ pc = [r \in Runs |-> IF r = 1 THEN "start" ELSE "idle"]
  /\ rows = {}

NextLive == \E r \in Runs : P2_Step(r)

\* Every remote call eventually returns or fails and the handler then runs on
\* to its next call: a run that can take a step eventually takes one.
SpecLive ==
  InitLive /\ [][NextLive]_vars /\ \A r \in Runs : WF_vars(P2_Step(r))

\* ------------------------------- two concurrent invocations of one handler

\* Valid requests for event E1 with an ingredient array of at most one
\* ingredient.
RaceRequests(v) ==
  {q \in RequestsOf(v) :
     /\ q.bodyKind = "object" /\ q.payloadKind = "absent"
     /\ ~MissingField(q) /\ q.eventId = "E1"
     /\ q.ingredients = "array" /\ q.len \in SeqLens}

\* Two invocations of the same handler with an existence query (main.js or
\* part_004), started together on an empty store; their steps interleave at
\* every remote call.
InitRace ==
  /\ InitLocals
  /\ \E v \in {"main", "p004"} :
       /\ variant = [r \in Runs |-> v]
       /\ input \in [Runs -> RaceRequests(v)]
  /\ pc = [r \in Runs |-> "start"]
  /\ rows = {}

\* The steps of main.js and part_004 (the other steps of S_Step belong to
\* part_003 and part_005).
RaceStep(r) ==
  \/ S_Parse(r)
  \/ S_GetDocument(r)
  \/ S_Open(r)
  \/ MP4_CreateOperations(r)
  \/ S_Commit(r)
  \/ S_Success(r)
  \/ S_Catch(r)

NextRace == \E r \in Runs : RaceStep(r)

SpecRace == InitRace /\ [][NextRace]_vars

\* ------------------------------------------------ part_000: batch update
\* part_000 is the first version of the update function: the default handler
\* dispatches batchUpdateProducts only and calls
\* handleBatchUpdateProducts(databases, data, log, error) without res, and
\* the handler declares `const transaction` inside its try block.  Inside
\* the handler every use of res, and in its catch block every use of
\* transaction, throws a ReferenceError.

\* Requests of part_000: the body, the operation and the batch data.
UpdateRequests000 ==
  {UpdateRequest(b, "unknown", FALSE, NoBatchData, NoGroupData) :
     b \in BodyKinds}
  \cup {UpdateRequest("jsonstring", "batchUpdateProducts", FALSE,
                      NoBatchData, NoGroupData)}
  \cup {UpdateRequest("jsonstring", "batchUpdateProducts", TRUE, bd,
                      NoGroupData) :
          bd \in {d \in BatchData : d.productsFound /\ d.nSynced = 0}}

\* Lines 24-40 and 56-77: as U_Checked, for the one operation of part_000.
P0_Checked(q) ==
  CASE q.bodyKind # "jsonstring" -> "badjson"
    [] q.operation # "batchUpdateProducts" -> "unknown"
    [] ~q.hasData -> "throws"
    [] OTHER -> U_BatchChecked(q.batch)

\* Lines 92-106: one update operation per product id.
P0_Operations(d) == [k \in 1..d.nIds |-> <<"products", k, "update">>]

\* Lines 166-204: prepareUpdatePayload throws for an unsupported update type.
P0_BuildThrows(d) == d.updateType \notin {"store", "who", "stock"}

\* Lines 24-45 and 56-77.  The two 400 responses of the default handler use
\* its own res.  Those of handleBatchUpdateProducts (lines 59 and 71) throw a
\* ReferenceError outside the handler's try block, as does destructuring an
\* undefined data; the default handler's catch answers 500 with the message.
P0_Start(r) ==
  /\ variant[r] = "p000" /\ pc[r] = "start"
  /\ LET how == P0_Checked(input[r]) IN
       \/ /\ how = "ok"
          /\ Goto(r, "open")
          /\ UNCHANGED <<err, response>>
       \/ /\ how \in {"badjson", "unknown"}
          /\ Respond(r, U_Rejected(how, input[r]))
          /\ UNCHANGED err
       \/ /\ how = "throws"
          /\ err' = Set1(err, r, "undefined")
          /\ Respond(r, U_ErrorResponse("undefined"))
       \/ /\ how \in {"missing", "toomany"}
          /\ err' = Set1(err, r, "ReferenceError")
          /\ Respond(r, U_ErrorResponse("ReferenceError"))
  /\ UNCHANGED <<variant, input, expense, allTransactions, transactionId,
                 loopI, loopJ, rbIdx, attempt, txs, rows, calls>>

\* Line 85: createTransaction.
P0_Open(r) ==
  /\ variant[r] = "p000" /\ pc[r] = "open"
  /\ \/ /\ txs' = StoreOpen
        /\ transactionId' = Set1(transactionId, r, Len(txs) + 1)
        /\ Log(Call(r, "createTransaction", Len(txs) + 1, NoRow, TRUE))
        /\ Goto(r, "stage")
        /\ UNCHANGED err
     \/ /\ RemoteFails(r, "createTransaction", 0, NoRow)
        /\ UNCHANGED <<txs, transactionId>>
  /\ UNCHANGED <<variant, input, expense, allTransactions, loopI, loopJ,
                 rbIdx, attempt, response, rows>>

\* Lines 92-113: build the operations and stage them.
P0_CreateOperations(r) ==
  /\ variant[r] = "p000" /\ pc[r] = "stage"
  /\ LET tx == transactionId[r]
         d == input[r].batch IN
       \/ /\ P0_BuildThrows(d)
          /\ Throw(r, "undefined", "catch")
          /\ UNCHANGED <<txs, calls>>
       \/ /\ ~P0_BuildThrows(d)
          /\ txs' = StoreStageAll(tx, P0_Operations(d))
          /\ Log(Call(r, "createOperations", tx, NoRow, TRUE))
          /\ Goto(r, "commit")
          /\ UNCHANGED err
       \/ /\ ~P0_BuildThrows(d)
          /\ RemoteFails(r, "createOperations", tx, NoRow)
          /\ UNCHANGED txs
  /\ UNCHANGED <<variant, input, expense, allTransactions, transactionId,
                 loopI, loopJ, rbIdx, attempt, response, rows>>

\* Lines 118-122: commit.
P0_Commit(r) ==
  /\ variant[r] = "p000" /\ pc[r] = "commit"
  /\ LET tx == transactionId[r] IN
       \/ /\ StoreCanCommit(tx)
          /\ txs' = StoreCommit(tx)
          /\ rows' = rows \cup Range(txs[tx].writes)
          /\ Log(Call(r, "commit", tx, NoRow, TRUE))
          /\ Goto(r, "success")
          /\ UNCHANGED err
       \/ /\ RemoteFails(r, "commit", tx, NoRow)
          /\ UNCHANGED <<txs, rows>>
  /\ UNCHANGED <<variant, input, expense, allTransactions, transactionId,
                 loopI, loopJ, rbIdx, attempt, response>>

\* Lines 126-132: `return res.json({ success: true, ... })` is inside the try
\* block and res is not defined in the handler: the ReferenceError is caught
\* by the handler's own catch (line 133) as transactionError.
P0_Success(r) ==
  /\ variant[r] = "p000" /\ pc[r] = "success"
  /\ Throw(r, "ReferenceError", "catch")
  /\ UNCHANGED <<variant, input, expense, allTransactions, transactionId,
                 loopI, loopJ, rbIdx, attempt, response, txs, rows, calls>>

\* Lines 133-156 and 41-44.  The rollback call names transaction.$id, which
\* is not in scope in the catch block: evaluating the argument throws before
\* any request is sent, and the inner catch (line 144) logs it.  The failure
\* response of line 148 uses res and throws in its turn, out of the handler;
\* the default handler's catch answers 500 with that error's message.
P0_Catch(r) ==
  /\ variant[r] = "p000" /\ pc[r] = "catch"
  /\ err' = Set1(err, r, "ReferenceError")
  /\ Respond(r, U_ErrorResponse("ReferenceError"))
  /\ UNCHANGED <<variant, input, expense, allTransactions, transactionId,
                 loopI, loopJ, rbIdx, attempt, txs, rows, calls>>

P0_Step(r) ==
  \/ P0_Start(r)
  \/ P0_Open(r)
  \/ P0_CreateOperations(r)
  \/ P0_Commit(r)
  \/ P0_Success(r)
  \/ P0_Catch(r)

\* One invocation of part_000 on an empty store.
InitUpdate000 ==
  /\ InitLocals
  /\ variant = [r \in Runs |-> "p000"]
  /\ \E q \in UpdateRequests000 :
       input = [r \in Runs |-> IF r = 1 THEN q ELSE IdleRequest]
  /\ pc = [r \in Runs |-> IF r = 1 THEN "start" ELSE "idle"]
  /\ rows = {}

NextUpdate000 == \E r \in Runs : P0_Step(r)

SpecUpdate000 == InitUpdate000 /\ [][NextUpdate000]_vars

\* =================================================================== claims

\* ---------------------------------------------------------- call histories

IsPrefix(s, t) ==
  /\ Len(s) <= Len(t)
  /\ \A k \in 1..Len(s) : s[k] = t[k]

TxOf(s) == [k \in 1..Len(s) |-> s[k].tx]

\* The remote calls a run has issued, in order.
CallsOf(r) == SelectSeq(calls, LAMBDA c : c.run = r)

\* The identifiers returned to a run by its successful open calls, in order.
OpenedIds(r) ==
  TxOf(SelectSeq(calls,
         LAMBDA c : c.run = r /\ c.op = "createTransaction" /\ c.ok))

RollbackCalls(r) ==
  SelectSeq(calls, LAMBDA c : c.run = r /\ c.op = "rollback")

RollbackCallsFor(r, t) ==
  SelectSeq(calls, LAMBDA c : c.run = r /\ c.op = "rollback" /\ c.tx = t)

\* s with every run of equal consecutive elements collapsed to one.
RECURSIVE Dedup(_)
Dedup(s) ==
  IF Len(s) <= 1 THEN s
  ELSE LET d == Dedup(Tail(s)) IN
         IF s[1] = d[1] THEN d ELSE <<s[1]>> \o d

\* The run has left the rollback phase after a failure.
RolledBackPhaseOver(r) == pc[r] \in {"mapError", "done"} /\ err[r] # NoError

\* ---------------------------------------------------------------------- C1

\* The rows of the transactions of run r that the store committed.
CommittedBy(r) ==
  UNION {Range(txs[t].writes) :
           t \in {u \in Range(allTransactions[r]) : txs[u].status = "committed"}}

\* The parent row and the child rows of a request.
ExpectedRows(q) ==
  {MainRow(q.eventId)} \cup Range(ProductRows(q))

\* C1: when a run of the multi-transaction writer responds, the store holds
\* either the parent row and all the child rows the run was to write, or none
\* of them.
C1_AllOrNothing ==
  \A r \in Runs :
    (variant[r] = "p002" /\ Responded(r) /\ response[r].status # 400) =>
      \/ CommittedBy(r) = ExpectedRows(input[r])
      \/ CommittedBy(r) = {}

\* ---------------------------------------------------------------------- C2

\* C2: the rollback calls of a run of the multi-transaction writer go to the
\* identifiers its successful open calls returned and to no other, in the
\* order they were opened, one identifier being finished (a successful call
\* or three failed ones) before the next starts; after the rollback phase
\* every opened identifier has been called; the ledger holds exactly the
\* identifiers of the successful open calls.
C2_LedgerRollback ==
  \A r \in Runs :
    variant[r] = "p002" =>
      LET opened == OpenedIds(r)
          rb == RollbackCalls(r)
          ids == Dedup(TxOf(rb)) IN
        /\ allTransactions[r] = opened
        /\ IsPrefix(ids, opened)
        /\ (rb # <<>> => err[r] # NoError)
        /\ (RolledBackPhaseOver(r) => ids = opened)
        /\ \A k \in 1..(Len(rb) - 1) :
             rb[k].tx # rb[k + 1].tx =>
               \/ rb[k].ok
               \/ Len(SelectSeq(SubSeq(rb, 1, k), LAMBDA c : c.tx = rb[k].tx))
                    = maxRollbackAttempts

\* A stage call of the second batch failed, and the three transactions opened
\* so far have been called for rollback.
C2_Witness ==
  \E r \in Runs :
    /\ variant[r] = "p002" /\ pc[r] = "done"
    /\ Len(OpenedIds(r)) = 3
    /\ Dedup(TxOf(RollbackCalls(r))) = OpenedIds(r)
    /\ \E k \in 1..Len(calls) :
         /\ calls[k].op = "createRow" /\ ~calls[k].ok
         /\ calls[k].tx = OpenedIds(r)[3]

\* ---------------------------------------------------------------------- C3

\* C3: for every identifier of the ledger the run issues at most 3 rollback
\* calls and none after a call that succeeded; once the rollback phase is
\* over every identifier has had at least one call, also those that follow
\* an identifier whose three calls failed, and the run responds.
C3_RetryBound ==
  \A r \in Runs :
    variant[r] = "p002" =>
      /\ \A t \in Range(allTransactions[r]) :
           LET mine == RollbackCallsFor(r, t) IN
             /\ Len(mine) <= 3
             /\ \A k \in 1..(Len(mine) - 1) : ~mine[k].ok
             /\ (RolledBackPhaseOver(r) => Len(mine) >= 1)
      /\ (pc[r] = "done" => Responded(r))

\* Three failed rollback calls for the parent's transaction, then a call for
\* the next identifier that succeeds at its second attempt.
C3_Witness ==
  \E r \in Runs :
    /\ variant[r] = "p002" /\ pc[r] = "done" /\ Len(allTransactions[r]) = 2
    /\ LET first == RollbackCallsFor(r, allTransactions[r][1])
           second == RollbackCallsFor(r, allTransactions[r][2]) IN
         /\ Len(first) = 3 /\ \A k \in 1..3 : ~first[k].ok
         /\ Len(second) = 2 /\ ~second[1].ok /\ second[2].ok

\* ---------------------------------------------------------------------- C4

\* The positions in the call log of the successful open calls of run r.
OpenPositions(r) ==
  {p \in 1..Len(calls) :
     calls[p].run = r /\ calls[p].op = "createTransaction" /\ calls[p].ok}

CommitAcked(r, t, from, to) ==
  \E m \in from..to :
    calls[m].run = r /\ calls[m].op = "commit" /\ calls[m].tx = t /\ calls[m].ok

\* C4: a run of the multi-transaction writer opens a transaction only after
\* the commit of every transaction it opened before was acknowledged (the
\* parent's before the first batch's, batch k's before batch k+1's); at no
\* time has it two opened transactions without an acknowledged commit.
C4_Sequential ==
  \A r \in Runs :
    variant[r] = "p002" =>
      /\ \A p, q \in OpenPositions(r) :
           p < q => CommitAcked(r, calls[p].tx, p + 1, q - 1)
      /\ Cardinality({t \in Range(allTransactions[r]) :
                        ~CommitAcked(r, t, 1, Len(calls))}) <= 1

\* The parent's transaction and three batches opened, the last not committed.
C4_Witness ==
  \E r \in Runs :
    /\ variant[r] = "p002" /\ Len(allTransactions[r]) = 4
    /\ ~CommitAcked(r, allTransactions[r][4], 1, Len(calls))

\* ---------------------------------------------------------------------- C5

CeilDiv(n, d) == (n + d - 1) \div d

\* The ingredient count of a request (0 without an ingredient array).
CountOf(q) == IF HasIngredients(q) THEN q.len ELSE 0

\* The input positions (1-based) of batch j of n ingredients: the 0-based
\* positions cap*(j-1) .. min(cap*j, n) - 1.
BatchPositions(n, j) ==
  LET cap == maxOperationsPerTransaction IN
    [k \in 1..(Min(cap * j, n) - cap * (j - 1)) |-> cap * (j - 1) + k]

\* The rows of the stage calls of run r into transaction t, in call order.
StagedInto(r, t) ==
  LET cs == SelectSeq(calls,
              LAMBDA c : c.run = r /\ c.op = "createRow" /\ c.tx = t) IN
    [k \in 1..Len(cs) |-> cs[k].row]

\* The rows of all the child stage calls of run r, in call order.
ChildrenStaged(r) ==
  LET cs == SelectSeq(calls,
              LAMBDA c : c.run = r /\ c.op = "createRow" /\ c.row[1] = "products") IN
    [k \in 1..Len(cs) |-> cs[k].row]

\* C5: batch j of a run of the multi-transaction writer stages the children
\* at input positions 99*(j-1) .. min(99*j, n)-1, in input order, and all of
\* them before its commit; in a run that succeeds every ingredient is staged
\* exactly once, in input order, and no batch is empty.
C5_Partition ==
  \A r \in Runs :
    variant[r] = "p002" =>
      LET q == input[r]
          led == allTransactions[r] IN
        /\ \A j \in 1..(Len(led) - 1) :
             LET staged == StagedInto(r, led[j + 1])
                 pos == BatchPositions(CountOf(q), j)
                 expected == [k \in 1..Len(pos) |-> ProductRow(pos[k], q.eventId)] IN
               /\ IsPrefix(staged, expected)
               /\ (CommitAcked(r, led[j + 1], 1, Len(calls)) =>
                     staged = expected /\ Len(staged) >= 1)
        /\ (response[r].success =>
              /\ ChildrenStaged(r) = ProductRows(q)
              /\ Len(led) - 1 = CeilDiv(CountOf(q), maxOperationsPerTransaction))

\* A successful run over three batches.
C5_Witness ==
  \E r \in Runs :
    /\ variant[r] = "p002" /\ response[r].success
    /\ Len(allTransactions[r]) = 4
    /\ Len(ChildrenStaged(r)) > 2 * maxOperationsPerTransaction

\* ---------------------------------------------------------------------- C6

\* The run has ended, it issued remote calls and none of them failed.
EndedWithoutFailure(r) ==
  /\ pc[r] = "done"
  /\ CallsOf(r) # <<>>
  /\ \A k \in 1..Len(calls) : calls[k].run = r => calls[k].ok

\* C6: a run of the multi-transaction writer none of whose calls fails
\* answers success; a run that answers success has opened exactly
\* 1 + ceil(n/99) transactions (n = 0 without an ingredient array), had the
\* commit of each acknowledged, and lists exactly their identifiers, in the
\* order opened, with totalTransactions their number.
C6_SuccessResponse ==
  \A r \in Runs :
    variant[r] = "p002" =>
      /\ (EndedWithoutFailure(r) => response[r].success)
      /\ (response[r].success =>
            LET opened == OpenedIds(r) IN
              /\ Len(opened) = 1 + CeilDiv(CountOf(input[r]), 99)
              /\ \A t \in Range(opened) : CommitAcked(r, t, 1, Len(calls))
              /\ response[r].status = 200
              /\ response[r].transactionIds = opened
              /\ response[r].totalTransactions = Len(opened))

\* Success for 100 ingredients: the parent's transaction and two batches.
C6_Witness ==
  \E r \in Runs :
    /\ variant[r] = "p002" /\ response[r].success
    /\ input[r].len = 100
    /\ Len(response[r].transactionIds) = 3

\* ---------------------------------------------------------------------- C7

\* C7: no transaction of a run of the multi-transaction writer ever holds
\* more than 99 staged writes; the parent's holds at most one, and exactly
\* the parent row once committed; a committed batch holds between 1 and 99.
C7_OperationCap ==
  \A r \in Runs :
    variant[r] = "p002" =>
      \A k \in 1..Len(allTransactions[r]) :
        LET t == txs[allTransactions[r][k]] IN
          /\ Len(t.writes) <= 99
          /\ (k = 1 => Len(t.writes) <= 1)
          /\ (k = 1 /\ t.status = "committed" =>
                t.writes = <<MainRow(input[r].eventId)>>)
          /\ (k > 1 /\ t.status = "committed" => Len(t.writes) >= 1)

\* A committed batch of exactly 99 writes.
C7_Witness ==
  \E r \in Runs :
    /\ variant[r] = "p002"
    /\ \E k \in 2..Len(allTransactions[r]) :
         LET t == txs[allTransactions[r][k]] IN
           t.status = "committed" /\ Len(t.writes) = 99

\* ---------------------------------------------------------------------- C8

\* The request reaches the validation (parsing and destructuring do not
\* raise) with one of the four fields missing or falsy.
InvalidFields(r) ==
  LET how == Parsed(variant[r], input[r]) IN
    \/ how = "nofields"
    \/ how = "fields" /\
         (\/ input[r].eventId = ""
          \/ ~input[r].eventData
          \/ ~input[r].contentHash
          \/ ~input[r].userId)

\* C8: in every event-creation handler, a request with eventId, eventData,
\* contentHash or userId missing is answered with status 400 and the run
\* issues no remote call.
C8_ValidationFirst ==
  \A r \in Runs :
    (pc[r] # "idle" /\ InvalidFields(r)) =>
      /\ CallsOf(r) = <<>>
      /\ pc[r] \in {"start", "done"}
      /\ (pc[r] = "done" => response[r].status = 400)

\* The request without contentHash, answered 400.
C8_Witness ==
  \E r \in Runs :
    /\ pc[r] = "done" /\ response[r].status = 400
    /\ input[r].eventId # "" /\ input[r].eventData /\ input[r].userId
    /\ ~input[r].contentHash
    /\ calls = <<>>

\* ---------------------------------------------------------------------- C9

FoundByQuery(r) ==
  \E k \in 1..Len(calls) :
    calls[k].run = r /\ calls[k].op = "getDocument" /\ calls[k].ok

\* C9: in main.js, part_003 and part_004, when the existence query finds a
\* record at eventId the run answers 409 already_exists and issues no other
\* remote call: no open, stage, commit or rollback.
C9_AlreadyExists ==
  \A r \in Runs :
    (variant[r] \in {"main", "p003", "p004"} /\ FoundByQuery(r)) =>
      /\ Len(CallsOf(r)) = 1
      /\ OpenedIds(r) = <<>>
      /\ pc[r] = "done"
      /\ response[r].status = 409
      /\ response[r].code = "already_exists"

C9_Witness ==
  \E r \in Runs :
    /\ variant[r] = "p004" /\ FoundByQuery(r)
    /\ response[r].code = "already_exists"

\* --------------------------------------------------------------------- C10

WriteCalls(r) ==
  SelectSeq(calls,
    LAMBDA c : c.run = r /\ c.op \in {"createTransaction", "createRow", "commit"})

\* C10: after a run of the multi-transaction writer for eventId E has
\* succeeded, a second run for the same E answers 409 already_exists and
\* issues no open, stage or commit call.
C10_SecondRunRejected ==
  (/\ variant[1] = "p002" /\ variant[2] = "p002"
   /\ response[1].success
   /\ input[2].eventId = input[1].eventId) =>
     /\ WriteCalls(2) = <<>>
     /\ (Responded(2) =>
           response[2].status = 409 /\ response[2].code = "already_exists")

\* --------------------------------------------------------------------- C11

\* The failed calls of a run that made it enter its catch block: every failed
\* call but the rollback calls, which the catch block itself issues, and a
\* 404 answer to the existence query, which is handled where it is raised.
TriggerCalls(r) ==
  SelectSeq(calls, LAMBDA c :
    /\ c.run = r /\ ~c.ok /\ c.op # "rollback"
    /\ ~(c.op = "getDocument" /\ c.code = "404"))

\* The code of the error that made the run fail: that of its failed call, or
\* none ("undefined") for an exception raised locally.
TriggerCode(r) ==
  IF TriggerCalls(r) = <<>> THEN "undefined" ELSE TriggerCalls(r)[1].code

\* The run of the multi-transaction writer answered from its catch block.
P2_AnsweredFromCatch(r) ==
  /\ variant[r] = "p002" /\ pc[r] = "done"
  /\ ~response[r].success /\ response[r].status # 400

\* C11: the failure response of the multi-transaction writer is determined by
\* the error that triggered the failure alone: 409 when that error is a
\* conflict, otherwise 500 with the message and the code of that error,
\* whatever the rollback calls answered.
C11_OriginalError ==
  \A r \in Runs :
    P2_AnsweredFromCatch(r) =>
      LET c == TriggerCode(r) IN
        IF c \in {"409", "document_already_exists"}
        THEN response[r].status = 409 /\ response[r].code = "conflict"
        ELSE /\ response[r].status = 500
             /\ response[r].code = c
             /\ response[r].error = c

\* A 500 response after a rollback call was answered with an error.
C11_Witness ==
  \E r \in Runs :
    /\ P2_AnsweredFromCatch(r)
    /\ response[r].status = 500
    /\ TriggerCalls(r) # <<>>
    /\ \E k \in 1..Len(calls) :
         calls[k].run = r /\ calls[k].op = "rollback" /\ ~calls[k].ok

\* --------------------------------------------------------------------- C12

\* C12: every failure response the multi-transaction writer sends from its
\* catch block, 409 or 500, carries the rolledBack flag: true when the run
\* opened at least one transaction, false when it opened none.
C12_RolledBackFlag ==
  \A r \in Runs :
    P2_AnsweredFromCatch(r) =>
      response[r].rolledBack =
        IF OpenedIds(r) # <<>> THEN "true" ELSE "false"

\* --------------------------------------------------------------------- C13

\* The transaction run r opened and then saw createOperations or the commit
\* fail on, if any (0 when none).
FailedAfterOpen(r) ==
  LET f == SelectSeq(calls, LAMBDA c :
             c.run = r /\ ~c.ok /\ c.op \in {"createOperations", "commit"})
  IN IF f = <<>> THEN 0 ELSE f[1].tx

\* C13: in main.js and part_004, when createOperations or the commit fails
\* after the transaction was opened, the run has issued a rollback call for
\* that transaction by the time it responds.
C13_RollbackOnFailure ==
  \A r \in Runs :
    (/\ variant[r] \in {"main", "p004"}
     /\ Responded(r)
     /\ FailedAfterOpen(r) # 0) =>
       RollbackCallsFor(r, FailedAfterOpen(r)) # <<>>

\* --------------------------------------------------------------------- C14

\* C14: in part_003 and part_005, a run that fails after it opened its
\* transaction has issued a rollback call carrying the transaction's id by
\* the time it sends the failure response, so a response with rolledBack
\* true implies that the store received a rollback call.
C14_RollbackIssued ==
  \A r \in Runs :
    (/\ variant[r] \in {"p003", "p005"}
     /\ Responded(r) /\ ~response[r].success
     /\ OpenedIds(r) # <<>>) =>
       /\ RollbackCallsFor(r, OpenedIds(r)[1]) # <<>>
       /\ (response[r].rolledBack = "true" => RollbackCalls(r) # <<>>)

\* --------------------------------------------------------------------- C15

\* The commit and rollback calls run r issued for transaction t, in order.
OutcomeCalls(r, t) ==
  SelectSeq(calls, LAMBDA c :
    c.run = r /\ c.tx = t /\ c.op \in {"commit", "rollback"})

\* Among the outcome calls s of a transaction, one of kind op was answered ok.
Acked(s, op) == \E k \in 1..Len(s) : s[k].op = op /\ s[k].ok

\* No commit call follows a rollback call for the same transaction, and no
\* transaction gets two commit calls: a commit call is the first of the
\* outcome calls s of its transaction.
CommitOnlyFirst(s) == \A k \in 2..Len(s) : s[k].op = "rollback"

HasRollback(s) == \E k \in 1..Len(s) : s[k].op = "rollback"

C17_P2ErrorMapping ==
  \A r \in Runs :
    (variant[r] = "p002" /\ pc[r] = "done" /\ ~response[r].success) =>
      /\ response[r].status \in {400, 409, 429, 500}
      /\ P2_AnsweredFromCatch(r) =>
           CASE TriggerCode(r) \in {"409", "document_already_exists"} ->
                  response[r].status = 409 /\ response[r].code = "conflict"
             [] TriggerCode(r) = "transaction_limit_exceeded" ->
                  response[r].status = 429
             [] TriggerCode(r) = "conflict" ->
                  response[r].status \in {409, 500}
             [] OTHER -> response[r].status = 500

\* --------------------------------------------------------------------- C18

\* The request carries no usable input: in main.js payload, or body when
\* there is no payload, is absent or a string that is not valid JSON; in
\* part_002 the body is.
InvalidInput(v, q) ==
  IF v = "main" /\ q.payloadKind # "absent"
  THEN q.payloadKind = "badjson"
  ELSE q.bodyKind \in {"absent", "badjson"}

\* C18: in main.js and the multi-transaction writer a request without usable
\* input is answered 400, and the run issues no remote call.
C18_InvalidInput ==
  \A r \in Runs :
    (/\ variant[r] \in {"main", "p002"}
     /\ InvalidInput(variant[r], input[r])) =>
       /\ CallsOf(r) = <<>>
       /\ (Responded(r) => response[r].status = 400)

\* --------------------------------------------------------------------- C19

\* A well-formed request of the update function whose operations exceed the
\* local cap of 100: more than 100 product ids, or more than 100 products and
\* purchases to create together.
ExceedsLocalCap(q) ==
  /\ q.bodyKind = "jsonstring" /\ q.hasData
  /\ \/ /\ q.operation = "batchUpdateProducts"
        /\ q.batch.updateType # "" /\ q.batch.updateData
        /\ q.batch.nIds > 100
     \/ /\ q.operation = "createGroupPurchaseWithSync"
        /\ q.group.mainId /\ q.group.batchData /\ q.group.invoiceData
        /\ q.group.nProducts + q.group.nPurchases > 100

\* C19: the update function rejects a request whose operations exceed the
\* local cap before it opens any transaction, with status 429.
C19_LocalCap ==
  \A r \in Runs :
    (variant[r] = "p001" /\ ExceedsLocalCap(input[r])) =>
      /\ CallsOf(r) = <<>>
      /\ (Responded(r) => response[r].status = 429)

\* --------------------------------------------------------------------- C20

\* ingredients.length, zero when ingredients is absent or not an array.
ChildCount(q) == IF q.ingredients = "array" THEN q.len ELSE 0

CommitCallsOk(r) ==
  SelectSeq(calls, LAMBDA c : c.run = r /\ c.op = "commit" /\ c.ok)

\* C20: when a run of main.js answers success, the store has committed
\* exactly one transaction of the run, holding one create of the parent with
\* the request's eventId and one create per ingredient, and the run has
\* committed no other write.
C20_MainSuccess ==
  \A r \in Runs :
    (variant[r] = "main" /\ response[r].success) =>
      LET ids == OpenedIds(r)
          q == input[r]
          w == txs[ids[1]].writes IN
        /\ Len(ids) = 1
        /\ txs[ids[1]].status = "committed"
        /\ TxOf(CommitCallsOk(r)) = ids
        /\ Len(w) = 1 + ChildCount(q)
        /\ w[1] = <<"main", 0, q.eventId>>
        /\ \A k \in 1..ChildCount(q) :
             w[k + 1] = <<"products",
                          IngredientHugoUuid(k) \o "_" \o q.eventId, q.eventId>>
        /\ rows = Range(w)

\* A run of main.js succeeded with more than a hundred ingredients.
C20_Witness ==
  \E r \in Runs :
    /\ variant[r] = "main" /\ response[r].success
    /\ ChildCount(input[r]) > 100
    /\ Cardinality(rows) = 1 + ChildCount(input[r])

\* --------------------------------------------------------------------- C21

\* The body reports, in two of its numeric fields, one parent row and n
\* child rows.
ReportsRowCounts(resp, n) ==
  \E f, g \in DOMAIN resp.counts :
    f # g /\ resp.counts[f] = 1 /\ resp.counts[g] = n

\* C21: every success response of main.js and of the multi-transaction
\* writer reports the number of parent rows and the number of child rows the
\* run wrote: 1 and ingredients.length.
C21_SuccessCounts ==
  \A r \in Runs :
    (variant[r] \in {"main", "p002"} /\ response[r].success) =>
      ReportsRowCounts(response[r], ChildCount(input[r]))

\* --------------------------------------------------------------------- C22

RECURSIVE WritesOf(_)
\* The writes staged into the transactions ids, in order.
WritesOf(ids) ==
  IF ids = <<>> THEN <<>> ELSE txs[Head(ids)].writes \o WritesOf(Tail(ids))

\* The child writes staged into the transactions run r opened, in order.
ChildWrites(r) ==
  SelectSeq(WritesOf(OpenedIds(r)), LAMBDA w : w[1] = "products")

\* C22: in every event-creation handler the child write staged for an
\* ingredient has the identifier ingredientHugoUuid, '_', eventId and the
\* parent reference eventId; the writes follow the input order, so the m-th
\* child write of a run is that of the m-th ingredient.  Staged writes stay
\* in the transaction's record, so they are read once the run has responded.
C22_ChildIdentity ==
  \A r \in Runs :
    (variant[r] \in Variants /\ pc[r] = "done") =>
      LET w == ChildWrites(r)
          ev == input[r].eventId IN
        \A m \in 1..Len(w) :
          /\ w[m][2] = IngredientHugoUuid(m) \o "_" \o ev
          /\ w[m][3] = ev

\* For eventId E1 and the one ingredient of uuid A the single child staged
\* has the identifier A_E1.
C22_Witness ==
  \E r \in Runs :
    /\ pc[r] = "done" /\ input[r].eventId = "E1" /\ input[r].len = 1
    /\ ChildWrites(r) = <<(<<"products", "A_E1", "E1">>)>>

\* --------------------------------------------------------------------- C23

\* The calls of the write sequence of run r: all but the rollback calls.
WriteSequence(r) ==
  SelectSeq(calls, LAMBDA c : c.run = r /\ c.op # "rollback")

NoRepeat(s) == Cardinality(Range(s)) = Len(s)

\* C23: a run of the multi-transaction writer does not retry its write
\* sequence: no call of the sequence follows a failed one, there is at most
\* one open call for the parent and one per batch, no row is staged twice
\* and no transaction gets two commit calls; only rollback calls are repeated
\* for the same transaction.  Read off the call log once the run has
\* responded.
C23_NoRetry ==
  \A r \in Runs :
    (variant[r] = "p002" /\ pc[r] = "done") =>
      LET w == WriteSequence(r)
          opens == SelectSeq(w, LAMBDA c : c.op = "createTransaction")
          stages == SelectSeq(w, LAMBDA c : c.op = "createRow")
          commits == SelectSeq(w, LAMBDA c : c.op = "commit") IN
        /\ \A k \in 1..(Len(w) - 1) : w[k].ok
        /\ Len(opens) <= 1 + CeilDiv(CountOf(input[r]), 99)
        /\ NoRepeat([k \in 1..Len(stages) |-> stages[k].row])
        /\ NoRepeat(TxOf(commits))

\* A run whose createRow failed once and that repeated only the rollback call
\* for the transaction.
C23_Witness ==
  \E r \in Runs :
    /\ variant[r] = "p002" /\ pc[r] = "done"
    /\ \E k \in 1..Len(calls) : calls[k].op = "createRow" /\ ~calls[k].ok
    /\ \E t \in Range(OpenedIds(r)) : Len(RollbackCallsFor(r, t)) > 1

\* --------------------------------------------------------------------- C24

CallCount(r, op) == Len(SelectSeq(calls, LAMBDA c : c.run = r /\ c.op = op))

\* The run has issued at most 1 + ceil(n/99) open calls and at most three
\* rollback calls per transaction it opened.
C24_CallBounds ==
  \A r \in Runs :
    /\ CallCount(r, "createTransaction") <= 1 + CeilDiv(CountOf(input[r]), 99)
    /\ CallCount(r, "rollback") <= 3 * Len(OpenedIds(r))

\* C24: when every remote call eventually returns or fails, every run of the
\* multi-transaction writer eventually responds, within 1 + ceil(n/99) open
\* calls and three rollback calls per opened transaction, and a response once
\* sent is never replaced by another.
C24_Termination ==
  /\ []C24_CallBounds
  /\ [][\A r \in Runs : Responded(r) => response'[r] = response[r]]_vars
  /\ \A r \in Runs : (pc[r] = "start") ~> (pc[r] = "done" /\ Responded(r))

\* A run that responded after it used all three rollback calls on each of
\* four transactions.
C24_Witness ==
  \E r \in Runs :
    /\ pc[r] = "done" /\ Responded(r)
    /\ Len(OpenedIds(r)) = 4
    /\ CallCount(r, "rollback") = 12

\* ------------------------------------------------------------------- C25
\* C25: in main.js and part_004 the existence query is the only check on the
\* parent.  Once it has answered not-found (code 404) the run is never
\* rejected as already_exists: unless one of its own remote calls fails it
\* opens a transaction and stages a create of the parent at its eventId,
\* whatever another invocation for the same eventId has opened or staged in
\* the meantime.  Two concurrent invocations can therefore both have staged
\* the parent (C25_Witness).
QueryNotFound(r) ==
  \E k \in 1..Len(calls) :
    /\ calls[k].run = r /\ calls[k].op = "getDocument"
    /\ ~calls[k].ok /\ calls[k].code = "404"

StagedParent(r) ==
  /\ transactionId[r] # 0
  /\ \E k \in 1..Len(calls) :
       /\ calls[k].run = r /\ calls[k].op = "createOperations" /\ calls[k].ok
       /\ calls[k].tx = transactionId[r]
  /\ MainRow(input[r].eventId) \in Range(txs[transactionId[r]].writes)

C25_NoGuardAfterQuery ==
  \A r \in Runs :
    (variant[r] \in {"main", "p004"} /\ QueryNotFound(r)) =>
      /\ ~(response[r].status = 409 /\ response[r].code = "already_exists")
      /\ TriggerCalls(r) = <<>> =>
           /\ pc[r] \in {"open", "stageOps", "commit", "success", "done"}
           /\ pc[r] \in {"commit", "success", "done"} => StagedParent(r)

\* Both invocations got not-found, both opened a transaction of their own,
\* and both transactions are open with a create of the same parent staged.
C25_Witness ==
  /\ input[1].eventId = input[2].eventId
  /\ transactionId[1] # transactionId[2]
  /\ \A r \in Runs :
       /\ variant[r] \in {"main", "p004"}
       /\ QueryNotFound(r) /\ StagedParent(r)
       /\ txs[transactionId[r]].status = "open"

\* ------------------------------------------------------------------- C26
\* C26: in main.js, part_003 and part_004 the bulk stage call
\* (createOperations, createRows) is issued only when the child count does
\* not exceed the single-transaction cap: a run whose ingredient array is
\* longer than the cap issues no bulk stage call.  (The cap is taken as the
\* larger of the family's two limits, so the statement is the weakest one.)
BulkStageCalls(r) ==
  SelectSeq(calls, LAMBDA c :
    c.run = r /\ c.op \in {"createOperations", "createRows"})

C26_BulkOnlyUnderCap ==
  \A r \in Runs :
    (/\ variant[r] \in {"main", "p003", "p004"}
     /\ ChildCount(input[r]) > batchSize) =>
      BulkStageCalls(r) = <<>>

\* ------------------------------------------------------------------- C27
\* C27: part_005 never has more than 100 writes staged in its one
\* transaction, whatever ingredients.length is.
C27_AtMostCapStaged ==
  \A r \in Runs :
    (variant[r] = "p005" /\ transactionId[r] # 0) =>
      Len(txs[transactionId[r]].writes) <= batchSize

\* ------------------------------------------------------------------- C28
\* C28: call order per transaction in part_002.  Every call is the most
\* recent one in the state that follows its issue, so the property is stated
\* for the most recent call c of a part_002 run, against the calls before it:
\*  - a stage call (createRow) goes into a transaction whose open call has
\*    returned and for which no commit and no rollback has been issued yet;
\*  - a commit call is issued for an opened transaction with no earlier
\*    commit or rollback, after every write of that transaction has been
\*    staged successfully: the parent for the first transaction, every child
\*    of batch j - 1 for the j-th one.
EarlierCalls == SubSeq(calls, 1, Len(calls) - 1)

OpenReturned(r, t) ==
  \E k \in 1..Len(EarlierCalls) :
    LET d == EarlierCalls[k] IN
      d.run = r /\ d.op = "createTransaction" /\ d.ok /\ d.tx = t

OutcomeIssued(t) ==
  \E k \in 1..Len(EarlierCalls) :
    EarlierCalls[k].tx = t /\ EarlierCalls[k].op \in {"commit", "rollback"}

StagedOkInto(r, t) ==
  LET cs == SelectSeq(EarlierCalls,
              LAMBDA d : d.run = r /\ d.op = "createRow" /\ d.tx = t /\ d.ok) IN
    [k \in 1..Len(cs) |-> cs[k].row]

\* The writes of the j-th transaction a run of part_002 opens.
WritesDue(q, j) ==
  IF j = 1 THEN <<MainRow(q.eventId)>>
  ELSE LET b == BatchPositions(q.len, j - 1) IN
         [k \in 1..Len(b) |-> ProductRow(b[k], q.eventId)]

OpenIndex(r, t) ==
  LET ids == TxOf(SelectSeq(EarlierCalls,
               LAMBDA d : d.run = r /\ d.op = "createTransaction" /\ d.ok)) IN
    CHOOSE j \in 1..Len(ids) : ids[j] = t

C28_StageWindow ==
  calls # <<>> =>
    LET c == calls[Len(calls)]
        r == c.run IN
      variant[r] = "p002" =>
        /\ c.op = "createRow" =>
             OpenReturned(r, c.tx) /\ ~OutcomeIssued(c.tx)
        /\ c.op = "commit" =>
             /\ OpenReturned(r, c.tx) /\ ~OutcomeIssued(c.tx)
             /\ StagedOkInto(r, c.tx) = WritesDue(input[r], OpenIndex(r, c.tx))

\* The commit of the second batch (third transaction) has just been
\* acknowledged, after its children were staged.
C28_Witness ==
  /\ calls # <<>>
  /\ LET c == calls[Len(calls)] IN
       /\ variant[c.run] = "p002" /\ c.op = "commit" /\ c.ok
       /\ Len(OpenedIds(c.run)) = 3 /\ OpenedIds(c.run)[3] = c.tx
       /\ Len(StagedOkInto(c.run, c.tx)) >= 1

\* ------------------------------------------------------------------- C29
\* C29: outcome of the existence query in main.js and part_004.  After a
\* not-found answer (code 404) the run goes on to open a transaction: it is
\* about to call createTransaction or has called it.  After any other error
\* of the query the run opens no transaction and stages no write, and it
\* ends with a failure response.
QueryError(r) ==
  \E k \in 1..Len(calls) :
    /\ calls[k].run = r /\ calls[k].op = "getDocument"
    /\ ~calls[k].ok /\ calls[k].code # "404"

CallsAfterQuery(r) ==
  SelectSeq(calls, LAMBDA c : c.run = r /\ c.op # "getDocument")

C29_QueryOutcome ==
  \A r \in Runs :
    variant[r] \in {"main", "p004"} =>
      /\ QueryNotFound(r) =>
           \/ pc[r] = "open"
           \/ \E k \in 1..Len(calls) :
                calls[k].run = r /\ calls[k].op = "createTransaction"
      /\ QueryError(r) =>
           /\ CallsAfterQuery(r) = <<>>
           /\ transactionId[r] = 0
           /\ pc[r] \in {"catch", "done"}
           /\ pc[r] = "done" =>
                /\ ~response[r].success
                /\ response[r].status \in {409, 429, 500}

\* A run whose existence query failed with a code other than 404 has
\* answered with a failure.
C29_Witness ==
  \E r \in Runs :
    /\ variant[r] \in {"main", "p004"}
    /\ QueryError(r) /\ pc[r] = "done" /\ response[r].status = 500

\* ------------------------------------------------------------------- C30
\* C30: in part_000 and part_001, once the commit of the handler's main
\* transaction has been acknowledged, the run issues no rollback call for
\* that transaction and its response is the success response (status 200,
\* success: true, with that transactionId), never a failure.
MainCommitAcked(r) ==
  /\ transactionId[r] # 0
  /\ \E k \in 1..Len(calls) :
       /\ calls[k].run = r /\ calls[k].op = "commit" /\ calls[k].ok
       /\ calls[k].tx = transactionId[r]

C30_SuccessAfterCommit ==
  \A r \in Runs :
    (variant[r] \in {"p000", "p001"} /\ MainCommitAcked(r)) =>
      /\ RollbackCallsFor(r, transactionId[r]) = <<>>
      /\ Responded(r) =>
           /\ response[r].status = 200 /\ response[r].success
           /\ response[r].transactionId = transactionId[r]

\* ------------------------------------------------------------------- C31
\* C31: in part_000 a batchUpdateProducts request whose productIds is missing
\* or empty, or whose updateType or updateData is missing, is answered with
\* status 400 and the message naming the missing parameters, and no
\* transaction is opened.
MissingBatchParams(q) ==
  /\ q.bodyKind = "jsonstring" /\ q.operation = "batchUpdateProducts"
  /\ q.hasData
  /\ q.batch.nIds = 0 \/ q.batch.updateType = "" \/ ~q.batch.updateData

C31_MissingParams400 ==
  \A r \in Runs :
    (variant[r] = "p000" /\ MissingBatchParams(input[r])) =>
      /\ CallsOf(r) = <<>> /\ transactionId[r] = 0
      /\ Responded(r) =>
           /\ response[r].status = 400
           /\ response[r].error =
                "Missing required parameters: productIds, updateType, updateData"

\* ------------------------------------------------------------------- C32
\* C32: dispatch in the default handler of part_001.  A body that is not
\* valid JSON is answered with 400 'Invalid JSON payload', an operation
\* other than batchUpdateProducts and createGroupPurchaseWithSync with 400
\* 'Unknown operation'; in both cases the run opens no transaction and makes
\* no remote call.
C32_Dispatch ==
  \A r \in Runs :
    variant[r] = "p001" =>
      LET q == input[r]
          notJson == q.bodyKind # "jsonstring"
          unknownOp ==
            /\ q.bodyKind = "jsonstring"
            /\ q.operation \notin
                 {"batchUpdateProducts", "createGroupPurchaseWithSync"} IN
        (pc[r] # "idle" /\ (notJson \/ unknownOp)) =>
          /\ CallsOf(r) = <<>> /\ transactionId[r] = 0 /\ txs = <<>>
          /\ pc[r] \in {"start", "done"}
          /\ pc[r] = "done" =>
               /\ response[r].status = 400 /\ ~response[r].success
               /\ response[r].error =
                    IF notJson THEN "Invalid JSON payload"
                    ELSE "Unknown operation"

\* Both rejections have been answered: a body that is not JSON, and an
\* unknown operation.
C32_Witness ==
  \E r \in Runs :
    /\ variant[r] = "p001" /\ pc[r] = "done"
    /\ input[r].bodyKind = "jsonstring" /\ input[r].operation = "unknown"
    /\ response[r].error = "Unknown operation"

C32_WitnessNotJson ==
  \E r \in Runs :
    /\ variant[r] = "p001" /\ pc[r] = "done"
    /\ input[r].bodyKind = "badjson"
    /\ response[r].error = "Invalid JSON payload"

\* ------------------------------------------------------------------- C33
\* C33: rollback in handleBatchUpdateProducts of part_001.  When opening the
\* transaction fails, no rollback call is issued.  When a later step fails
\* (building the operations, staging, commit), exactly one rollback call is
\* issued, for the opened transaction, and it is not retried.  In all these
\* cases, also when the rollback call itself fails, the response has status
\* 500, success: false and the message of the original failure.
BatchRun(r) ==
  /\ variant[r] = "p001" /\ pc[r] # "idle"
  /\ ~IsGroup(input[r]) /\ U_Checked(input[r]) = "ok"

\* The run has failed: a remote call of it failed, or building the
\* operations threw after the transaction was opened.
BatchFailed(r) ==
  \/ TriggerCalls(r) # <<>>
  \/ pc[r] \in {"catch", "failed"}
  \/ U_BuildThrows(input[r]) /\ pc[r] = "done"

C33_BatchRollback ==
  \A r \in Runs :
    BatchRun(r) =>
      LET rb == RollbackCalls(r)
          opened == transactionId[r] # 0 IN
        /\ ~opened => rb = <<>>
        /\ Len(rb) <= 1
        /\ \A k \in 1..Len(rb) : rb[k].tx = transactionId[r]
        /\ ~BatchFailed(r) => rb = <<>>
        /\ (BatchFailed(r) /\ pc[r] \in {"failed", "done"} /\ opened) =>
             Len(rb) = 1
        /\ (BatchFailed(r) /\ pc[r] = "done") =>
             /\ response[r].status = 500 /\ ~response[r].success
             /\ response[r].error = TriggerCode(r)

\* A commit failed, the one rollback call failed too, and the run answered
\* 500 with the commit's error.
C33_Witness ==
  \E r \in Runs :
    /\ BatchRun(r) /\ pc[r] = "done"
    /\ TriggerCalls(r) # <<>> /\ TriggerCalls(r)[1].op = "commit"
    /\ Len(RollbackCalls(r)) = 1 /\ ~RollbackCalls(r)[1].ok
    /\ RollbackCalls(r)[1].code # TriggerCode(r)
    /\ response[r].status = 500 /\ response[r].error = TriggerCode(r)

\* ------------------------------------------------------------------- C34
\* C34: operation building in handleBatchUpdateProducts of part_001.  The
\* operations staged by the createOperations call are one per product id, in
\* productIds order, an 'update' when the product has isSynced === true and
\* a 'create' otherwise.  When a product id has no entry in products, the
\* run issues no stage call and no commit call for the transaction it has
\* opened, and it ends in a 500 response.
StagedBatch(r) ==
  \E k \in 1..Len(calls) :
    /\ calls[k].run = r /\ calls[k].op = "createOperations" /\ calls[k].ok
    /\ calls[k].tx = transactionId[r]

C34_OperationList ==
  \A r \in Runs :
    BatchRun(r) =>
      LET d == input[r].batch
          ops == IF transactionId[r] = 0 THEN <<>>
                 ELSE txs[transactionId[r]].writes IN
        /\ StagedBatch(r) =>
             /\ Len(ops) = d.nIds
             /\ \A k \in 1..d.nIds :
                  /\ ops[k][1] = "products" /\ ops[k][2] = k
                  /\ ops[k][3] = "update" <=> k <= d.nSynced
        /\ ~d.productsFound =>
             /\ \A k \in 1..Len(calls) :
                  calls[k].run = r =>
                    calls[k].op \notin {"createOperations", "commit"}
             /\ ops = <<>>
             /\ pc[r] = "done" =>
                  response[r].status = 500 /\ ~response[r].success

\* A list of 100 operations is staged whose first is an update and whose
\* others are creates.
C34_Witness ==
  \E r \in Runs :
    /\ BatchRun(r) /\ StagedBatch(r)
    /\ input[r].batch.nIds = maxOperations /\ input[r].batch.nSynced = 1
    /\ txs[transactionId[r]].writes[1][3] = "update"
    /\ txs[transactionId[r]].writes[maxOperations][3] = "create"

\* A product id without entry in products: the run answered 500 after
\* opening its transaction.
C34_WitnessNotFound ==
  \E r \in Runs :
    /\ BatchRun(r) /\ ~input[r].batch.productsFound
    /\ transactionId[r] # 0 /\ pc[r] = "done" /\ response[r].status = 500

\* ------------------------------------------------------------------- C35
\* C35: the expense step of handleCreateGroupPurchaseWithSync in part_001.
\* Every call of the expense step (open, stage, commit of the expense
\* transaction) comes after the acknowledged commit of the main transaction,
\* and only when invoiceData.invoiceTotal is truthy.  Whatever the expense
\* calls answer, the main transaction stays committed and gets no rollback
\* call, the response is the success response, and expenseCreated is true
\* exactly when the expense commit was acknowledged.
GroupRun(r) ==
  /\ variant[r] = "p001" /\ pc[r] # "idle"
  /\ IsGroup(input[r]) /\ U_Checked(input[r]) = "ok"

IsExpenseCall(r, c) ==
  /\ c.run = r
  /\ \/ c.row = ExpenseRow
     \/ c.op = "createTransaction" /\ c.ok /\ c.tx # transactionId[r]

ExpenseCalls(r) == SelectSeq(calls, LAMBDA c : IsExpenseCall(r, c))

ExpenseCommitted(r) ==
  \E k \in 1..Len(calls) :
    /\ calls[k].run = r /\ calls[k].op = "commit" /\ calls[k].ok
    /\ calls[k].row = ExpenseRow

C35_ExpenseStep ==
  \A r \in Runs :
    GroupRun(r) =>
      /\ \A k \in 1..Len(calls) :
           IsExpenseCall(r, calls[k]) =>
             /\ input[r].group.invoiceTotal
             /\ \E j \in 1..(k - 1) :
                  /\ calls[j].run = r /\ calls[j].op = "commit" /\ calls[j].ok
                  /\ calls[j].tx = transactionId[r]
      /\ (ExpenseCalls(r) # <<>> \/ MainCommitAcked(r)) =>
           /\ txs[transactionId[r]].status = "committed"
           /\ RollbackCalls(r) = <<>>
           /\ pc[r] \notin {"catch", "failed"}
           /\ pc[r] = "done" =>
                /\ response[r].status = 200 /\ response[r].success
                /\ response[r].expenseCreated <=> ExpenseCommitted(r)
      /\ (MainCommitAcked(r) /\ input[r].group.invoiceTotal
            /\ pc[r] = "done") =>
           ExpenseCalls(r) # <<>>

\* The expense commit failed after the main commit: the run still answered
\* with success, with expenseCreated false.
C35_Witness ==
  \E r \in Runs :
    /\ GroupRun(r) /\ pc[r] = "done"
    /\ \E k \in 1..Len(calls) :
         /\ calls[k].run = r /\ calls[k].op = "commit" /\ ~calls[k].ok
         /\ calls[k].row = ExpenseRow
    /\ response[r].success /\ ~response[r].expenseCreated
    /\ txs[transactionId[r]].status = "committed"

\* ------------------------------------------------------------------- C36
\* C36: when a run of handleCreateGroupPurchaseWithSync (part_001) has
\* responded, every transaction it opened, the main one and the expense one,
\* has had its commit acknowledged or has had at least one rollback call
\* issued for it.
C36_NoOpenLeft ==
  \A r \in Runs :
    (GroupRun(r) /\ Responded(r)) =>
      LET ids == OpenedIds(r) IN
        \A k \in 1..Len(ids) :
          \E j \in 1..Len(calls) :
            /\ calls[j].run = r /\ calls[j].tx = ids[k]
            /\ \/ calls[j].op = "commit" /\ calls[j].ok
               \/ calls[j].op = "rollback"

====
